---- MODULE Spec2Model ----
(***************************************************************************)
(* Income-distribution pipeline: the weighted percentile estimator         *)
(* (process_income.py), the historical tax engine and the after-tax        *)
(* annotator (add_after_tax.py).                                           *)
(*                                                                         *)
(* Number representation.  The program computes in binary floating point.  *)
(* Here money is an integer number of mills (1/1000 dollar), a rate is an  *)
(* integer number of 1/100000 (0.062 is 6200), and a product money x rate  *)
(* is the exact product rounded down to a whole mill (MulRate).  Every     *)
(* table entry of the source is a whole dollar or an exact multiple of     *)
(* 1/100000, so for the incomes enumerated below (multiples of 100 dollars)*)
(* every product is a whole number of mills and the arithmetic is exact.   *)
(* Floating-point rounding error of the source is not modelled.            *)
(***************************************************************************)
EXTENDS Integers, Sequences, FiniteSets, TLC

VARIABLES
    pc,            \* position of the running program
    gross_income,  \* argument of the tax functions, in mills
    year,          \* argument of the tax functions
    state_rate,    \* argument of compute_state_tax / compute_after_tax
    values,        \* argument of weighted_percentile / weighted_mean
    weights,       \* argument of weighted_percentile / weighted_mean
    percentile,    \* argument of weighted_percentile
    ret,           \* value returned (or error raised) by the last call
    df,            \* the microdata table given to compute_percentiles
    age_min,       \* argument of compute_percentiles
    age_max,       \* argument of compute_percentiles
    results,       \* the table returned by compute_percentiles
    data,          \* data['data'], the table add_after_tax_to_data annotates
    runs,          \* the state_rate of each add_after_tax_to_data run so far
    metadata       \* data['metadata'], as far as project() touches it

vars == <<pc, gross_income, year, state_rate, values, weights, percentile, ret,
          df, age_min, age_max, results, data, runs, metadata>>

taxArgs == <<gross_income, year, state_rate>>
pctArgs == <<values, weights, percentile>>
buildVars == <<df, age_min, age_max, results>>

\* JSON null / Python None as the value of a table field: a number that no
\* amount of the model takes.
None == -1000000000

\* The value of ret / results / data before the call has returned.
NotYet == "not yet"

\* An exception raised instead of a value returned.
Raised(name) == [error |-> name]

Min(a, b) == IF a <= b THEN a ELSE b
Max(a, b) == IF a >= b THEN a ELSE b

\* A dollar amount of the source tables, in mills.
Dollars(d) == d * 1000

\* money (mills, >= 0) times rate (1/100000): floor(x * r / 100000),
\* split so that no intermediate product leaves 32 bits.
MulRate(x, r) ==
    LET xd == x \div 1000
        xm == x % 1000
        xh == xd \div 100
        xl == xd % 100
        rh == r \div 100
        rl == r % 100
    IN  xd * rh + xh * rl + (xl * rl * 1000 + xm * r) \div 100000

\* round(x, 2) on an amount in mills: to the nearest cent, ties to even.
Round2(m) ==
    LET a == IF m < 0 THEN -m ELSE m
        c == a \div 10
        r == a % 10
        up == IF r > 5 \/ (r = 5 /\ c % 2 = 1) THEN c + 1 ELSE c
    IN  IF m < 0 THEN -(up * 10) ELSE up * 10

(***************************************************************************)
(* Tax rule tables (add_after_tax.py).  Thresholds and amounts in dollars, *)
(* rates in 1/100000.                                                      *)
(***************************************************************************)
FEDERAL_BRACKETS ==
       1961 :> << <<0, 20000>>, <<2000, 22000>>, <<4000, 26000>>, <<6000, 30000>>,
                 <<8000, 34000>>, <<10000, 38000>>, <<12000, 43000>>, <<14000, 47000>>,
                 <<16000, 50000>>, <<18000, 53000>>, <<20000, 56000>>, <<22000, 59000>>,
                 <<26000, 62000>>, <<32000, 65000>>, <<38000, 69000>>, <<44000, 72000>>,
                 <<50000, 75000>>, <<60000, 78000>>, <<70000, 81000>>, <<80000, 84000>>,
                 <<90000, 87000>>, <<100000, 89000>>, <<150000, 90000>>,
                 <<200000, 91000>> >>
    @@ 1962 :> << <<0, 20000>>, <<2000, 22000>>, <<4000, 26000>>, <<6000, 30000>>,
                 <<8000, 34000>>, <<10000, 38000>>, <<12000, 43000>>, <<14000, 47000>>,
                 <<16000, 50000>>, <<18000, 53000>>, <<20000, 56000>>, <<22000, 59000>>,
                 <<26000, 62000>>, <<32000, 65000>>, <<38000, 69000>>, <<44000, 72000>>,
                 <<50000, 75000>>, <<60000, 78000>>, <<70000, 81000>>, <<80000, 84000>>,
                 <<90000, 87000>>, <<100000, 89000>>, <<150000, 90000>>,
                 <<200000, 91000>> >>
    @@ 1963 :> << <<0, 16000>>, <<500, 17000>>, <<1000, 18000>>, <<1500, 18000>>,
                 <<2000, 20000>>, <<4000, 24000>>, <<6000, 27000>>, <<8000, 31000>>,
                 <<10000, 34000>>, <<12000, 38000>>, <<14000, 41000>>, <<16000, 45000>>,
                 <<18000, 48000>>, <<20000, 51000>>, <<22000, 54000>>, <<26000, 56000>>,
                 <<32000, 59000>>, <<38000, 61000>>, <<44000, 64000>>, <<50000, 66000>>,
                 <<60000, 69000>>, <<70000, 71000>>, <<80000, 74000>>, <<90000, 75000>>,
                 <<100000, 77000>> >>
    @@ 1964 :> << <<0, 14000>>, <<500, 15000>>, <<1000, 16000>>, <<1500, 17000>>,
                 <<2000, 19000>>, <<4000, 22000>>, <<6000, 25000>>, <<8000, 28000>>,
                 <<10000, 32000>>, <<12000, 36000>>, <<14000, 39000>>, <<16000, 42000>>,
                 <<18000, 45000>>, <<20000, 48000>>, <<22000, 50000>>, <<26000, 53000>>,
                 <<32000, 55000>>, <<38000, 58000>>, <<44000, 60000>>, <<50000, 62000>>,
                 <<60000, 64000>>, <<70000, 66000>>, <<80000, 68000>>, <<90000, 69000>>,
                 <<100000, 70000>> >>
    @@ 1965 :> << <<0, 14000>>, <<500, 15000>>, <<1000, 16000>>, <<1500, 17000>>,
                 <<2000, 19000>>, <<4000, 22000>>, <<6000, 25000>>, <<8000, 28000>>,
                 <<10000, 32000>>, <<12000, 36000>>, <<14000, 39000>>, <<16000, 42000>>,
                 <<18000, 45000>>, <<20000, 48000>>, <<22000, 50000>>, <<26000, 53000>>,
                 <<32000, 55000>>, <<38000, 58000>>, <<44000, 60000>>, <<50000, 62000>>,
                 <<60000, 64000>>, <<70000, 66000>>, <<80000, 68000>>, <<90000, 69000>>,
                 <<100000, 70000>> >>
    @@ 1966 :> << <<0, 14000>>, <<500, 15000>>, <<1000, 16000>>, <<1500, 17000>>,
                 <<2000, 19000>>, <<4000, 22000>>, <<6000, 25000>>, <<8000, 28000>>,
                 <<10000, 32000>>, <<12000, 36000>>, <<14000, 39000>>, <<16000, 42000>>,
                 <<18000, 45000>>, <<20000, 48000>>, <<22000, 50000>>, <<26000, 53000>>,
                 <<32000, 55000>>, <<38000, 58000>>, <<44000, 60000>>, <<50000, 62000>>,
                 <<60000, 64000>>, <<70000, 66000>>, <<80000, 68000>>, <<90000, 69000>>,
                 <<100000, 70000>> >>
    @@ 1967 :> << <<0, 14000>>, <<500, 15000>>, <<1000, 16000>>, <<1500, 17000>>,
                 <<2000, 19000>>, <<4000, 22000>>, <<6000, 25000>>, <<8000, 28000>>,
                 <<10000, 32000>>, <<12000, 36000>>, <<14000, 39000>>, <<16000, 42000>>,
                 <<18000, 45000>>, <<20000, 48000>>, <<22000, 50000>>, <<26000, 53000>>,
                 <<32000, 55000>>, <<38000, 58000>>, <<44000, 60000>>, <<50000, 62000>>,
                 <<60000, 64000>>, <<70000, 66000>>, <<80000, 68000>>, <<90000, 69000>>,
                 <<100000, 70000>> >>
    @@ 1968 :> << <<0, 14000>>, <<500, 15000>>, <<1000, 16000>>, <<1500, 17000>>,
                 <<2000, 19000>>, <<4000, 22000>>, <<6000, 25000>>, <<8000, 28000>>,
                 <<10000, 32000>>, <<12000, 36000>>, <<14000, 39000>>, <<16000, 42000>>,
                 <<18000, 45000>>, <<20000, 48000>>, <<22000, 50000>>, <<26000, 53000>>,
                 <<32000, 55000>>, <<38000, 58000>>, <<44000, 60000>>, <<50000, 62000>>,
                 <<60000, 64000>>, <<70000, 66000>>, <<80000, 68000>>, <<90000, 69000>>,
                 <<100000, 70000>> >>
    @@ 1969 :> << <<0, 14000>>, <<500, 15000>>, <<1000, 16000>>, <<1500, 17000>>,
                 <<2000, 19000>>, <<4000, 22000>>, <<6000, 25000>>, <<8000, 28000>>,
                 <<10000, 32000>>, <<12000, 36000>>, <<14000, 39000>>, <<16000, 42000>>,
                 <<18000, 45000>>, <<20000, 48000>>, <<22000, 50000>>, <<26000, 53000>>,
                 <<32000, 55000>>, <<38000, 58000>>, <<44000, 60000>>, <<50000, 62000>>,
                 <<60000, 64000>>, <<70000, 66000>>, <<80000, 68000>>, <<90000, 69000>>,
                 <<100000, 70000>> >>
    @@ 1970 :> << <<0, 14000>>, <<500, 15000>>, <<1000, 16000>>, <<1500, 17000>>,
                 <<2000, 19000>>, <<4000, 21000>>, <<6000, 24000>>, <<8000, 25000>>,
                 <<10000, 27000>>, <<12000, 29000>>, <<14000, 31000>>, <<16000, 34000>>,
                 <<18000, 36000>>, <<20000, 38000>>, <<22000, 40000>>, <<26000, 45000>>,
                 <<32000, 50000>>, <<38000, 55000>>, <<44000, 60000>>, <<50000, 62000>>,
                 <<60000, 64000>>, <<70000, 66000>>, <<80000, 68000>>, <<90000, 69000>>,
                 <<100000, 70000>> >>
    @@ 1971 :> << <<0, 14000>>, <<500, 15000>>, <<1000, 16000>>, <<1500, 17000>>,
                 <<2000, 19000>>, <<4000, 21000>>, <<6000, 24000>>, <<8000, 25000>>,
                 <<10000, 27000>>, <<12000, 29000>>, <<14000, 31000>>, <<16000, 34000>>,
                 <<18000, 36000>>, <<20000, 38000>>, <<22000, 40000>>, <<26000, 45000>>,
                 <<32000, 50000>>, <<38000, 55000>>, <<44000, 60000>>, <<50000, 62000>>,
                 <<60000, 64000>>, <<70000, 66000>>, <<80000, 68000>>, <<90000, 69000>>,
                 <<100000, 70000>> >>
    @@ 1972 :> << <<0, 14000>>, <<500, 15000>>, <<1000, 16000>>, <<1500, 17000>>,
                 <<2000, 19000>>, <<4000, 21000>>, <<6000, 24000>>, <<8000, 25000>>,
                 <<10000, 27000>>, <<12000, 29000>>, <<14000, 31000>>, <<16000, 34000>>,
                 <<18000, 36000>>, <<20000, 38000>>, <<22000, 40000>>, <<26000, 45000>>,
                 <<32000, 50000>>, <<38000, 55000>>, <<44000, 60000>>, <<50000, 62000>>,
                 <<60000, 64000>>, <<70000, 66000>>, <<80000, 68000>>, <<90000, 69000>>,
                 <<100000, 70000>> >>
    @@ 1973 :> << <<0, 14000>>, <<500, 15000>>, <<1000, 16000>>, <<1500, 17000>>,
                 <<2000, 19000>>, <<4000, 21000>>, <<6000, 24000>>, <<8000, 25000>>,
                 <<10000, 27000>>, <<12000, 29000>>, <<14000, 31000>>, <<16000, 34000>>,
                 <<18000, 36000>>, <<20000, 38000>>, <<22000, 40000>>, <<26000, 45000>>,
                 <<32000, 50000>>, <<38000, 55000>>, <<44000, 60000>>, <<50000, 62000>>,
                 <<60000, 64000>>, <<70000, 66000>>, <<80000, 68000>>, <<90000, 69000>>,
                 <<100000, 70000>> >>
    @@ 1974 :> << <<0, 14000>>, <<500, 15000>>, <<1000, 16000>>, <<1500, 17000>>,
                 <<2000, 19000>>, <<4000, 21000>>, <<6000, 24000>>, <<8000, 25000>>,
                 <<10000, 27000>>, <<12000, 29000>>, <<14000, 31000>>, <<16000, 34000>>,
                 <<18000, 36000>>, <<20000, 38000>>, <<22000, 40000>>, <<26000, 45000>>,
                 <<32000, 50000>>, <<38000, 55000>>, <<44000, 60000>>, <<50000, 62000>>,
                 <<60000, 64000>>, <<70000, 66000>>, <<80000, 68000>>, <<90000, 69000>>,
                 <<100000, 70000>> >>
    @@ 1975 :> << <<0, 14000>>, <<500, 15000>>, <<1000, 16000>>, <<1500, 17000>>,
                 <<2000, 19000>>, <<4000, 21000>>, <<6000, 24000>>, <<8000, 25000>>,
                 <<10000, 27000>>, <<12000, 29000>>, <<14000, 31000>>, <<16000, 34000>>,
                 <<18000, 36000>>, <<20000, 38000>>, <<22000, 40000>>, <<26000, 45000>>,
                 <<32000, 50000>>, <<38000, 55000>>, <<44000, 60000>>, <<50000, 62000>>,
                 <<60000, 64000>>, <<70000, 66000>>, <<80000, 68000>>, <<90000, 69000>>,
                 <<100000, 70000>> >>
    @@ 1976 :> << <<0, 14000>>, <<500, 15000>>, <<1000, 16000>>, <<1500, 17000>>,
                 <<2000, 19000>>, <<4000, 21000>>, <<6000, 24000>>, <<8000, 25000>>,
                 <<10000, 27000>>, <<12000, 29000>>, <<14000, 31000>>, <<16000, 34000>>,
                 <<18000, 36000>>, <<20000, 38000>>, <<22000, 40000>>, <<26000, 45000>>,
                 <<32000, 50000>>, <<38000, 55000>>, <<44000, 60000>>, <<50000, 62000>>,
                 <<60000, 64000>>, <<70000, 66000>>, <<80000, 68000>>, <<90000, 69000>>,
                 <<100000, 70000>> >>
    @@ 1977 :> << <<0, 14000>>, <<500, 15000>>, <<1000, 16000>>, <<1500, 17000>>,
                 <<2000, 19000>>, <<4000, 21000>>, <<6000, 24000>>, <<8000, 25000>>,
                 <<10000, 27000>>, <<12000, 29000>>, <<14000, 31000>>, <<16000, 34000>>,
                 <<18000, 36000>>, <<20000, 38000>>, <<22000, 40000>>, <<26000, 45000>>,
                 <<32000, 50000>>, <<38000, 55000>>, <<44000, 60000>>, <<50000, 62000>>,
                 <<60000, 64000>>, <<70000, 66000>>, <<80000, 68000>>, <<90000, 69000>>,
                 <<100000, 70000>> >>
    @@ 1978 :> << <<0, 14000>>, <<1100, 16000>>, <<2100, 18000>>, <<4200, 19000>>,
                 <<6200, 21000>>, <<8500, 24000>>, <<10600, 26000>>, <<12700, 30000>>,
                 <<15900, 34000>>, <<21200, 39000>>, <<26500, 44000>>, <<31800, 49000>>,
                 <<39200, 55000>>, <<53000, 63000>>, <<79500, 68000>>, <<106000, 70000>> >>
    @@ 1979 :> << <<0, 14000>>, <<1100, 16000>>, <<2100, 18000>>, <<4200, 19000>>,
                 <<6200, 21000>>, <<8500, 24000>>, <<10600, 26000>>, <<12700, 30000>>,
                 <<15900, 34000>>, <<21200, 39000>>, <<26500, 44000>>, <<31800, 49000>>,
                 <<39200, 55000>>, <<53000, 63000>>, <<79500, 68000>>, <<106000, 70000>> >>
    @@ 1980 :> << <<0, 14000>>, <<1100, 16000>>, <<2100, 18000>>, <<4200, 19000>>,
                 <<6200, 21000>>, <<8500, 24000>>, <<10600, 26000>>, <<12700, 30000>>,
                 <<15900, 34000>>, <<21200, 39000>>, <<26500, 44000>>, <<31800, 49000>>,
                 <<39200, 55000>>, <<53000, 63000>>, <<79500, 68000>>, <<106000, 70000>> >>
    @@ 1981 :> << <<0, 12000>>, <<1100, 14000>>, <<2100, 16000>>, <<4200, 17000>>,
                 <<6200, 19000>>, <<8500, 22000>>, <<10600, 23000>>, <<12700, 27000>>,
                 <<15900, 31000>>, <<21200, 35000>>, <<26500, 40000>>, <<31800, 44000>>,
                 <<39200, 50000>> >>
    @@ 1982 :> << <<0, 11000>>, <<1100, 13000>>, <<2100, 15000>>, <<6200, 17000>>,
                 <<8500, 19000>>, <<10600, 21000>>, <<12700, 24000>>, <<15900, 28000>>,
                 <<21200, 32000>>, <<26500, 36000>>, <<31800, 40000>>, <<39200, 45000>>,
                 <<53000, 50000>> >>
    @@ 1983 :> << <<0, 11000>>, <<1100, 12000>>, <<2100, 14000>>, <<4200, 15000>>,
                 <<6200, 16000>>, <<8500, 18000>>, <<10600, 20000>>, <<12700, 23000>>,
                 <<15900, 26000>>, <<21200, 30000>>, <<26500, 34000>>, <<31800, 38000>>,
                 <<39200, 42000>>, <<53000, 48000>>, <<79500, 50000>> >>
    @@ 1984 :> << <<0, 11000>>, <<1150, 12000>>, <<2190, 14000>>, <<4370, 15000>>,
                 <<6460, 16000>>, <<8850, 18000>>, <<11040, 20000>>, <<13220, 23000>>,
                 <<16550, 26000>>, <<22070, 30000>>, <<27580, 34000>>, <<33100, 38000>>,
                 <<40800, 42000>>, <<55160, 48000>>, <<82740, 50000>> >>
    @@ 1985 :> << <<0, 11000>>, <<1190, 12000>>, <<2270, 14000>>, <<4530, 15000>>,
                 <<6690, 16000>>, <<9170, 18000>>, <<11440, 20000>>, <<13710, 23000>>,
                 <<17160, 26000>>, <<22880, 30000>>, <<28600, 34000>>, <<34320, 38000>>,
                 <<42300, 42000>>, <<57190, 48000>>, <<85790, 50000>> >>
    @@ 1986 :> << <<0, 11000>>, <<1230, 12000>>, <<2340, 14000>>, <<4680, 15000>>,
                 <<6910, 16000>>, <<9460, 18000>>, <<11820, 20000>>, <<14160, 23000>>,
                 <<17710, 26000>>, <<23610, 30000>>, <<29510, 34000>>, <<35420, 38000>>,
                 <<43650, 42000>>, <<59000, 48000>>, <<88540, 50000>> >>
    @@ 1987 :> << <<0, 15000>>, <<17850, 28000>> >>
    @@ 1988 :> << <<0, 15000>>, <<18550, 28000>> >>
    @@ 1989 :> << <<0, 15000>>, <<19450, 28000>> >>
    @@ 1990 :> << <<0, 15000>>, <<20350, 28000>>, <<49300, 31000>> >>
    @@ 1991 :> << <<0, 15000>>, <<21450, 28000>>, <<51900, 31000>> >>
    @@ 1992 :> << <<0, 15000>>, <<22100, 28000>>, <<53500, 31000>> >>
    @@ 1993 :> << <<0, 15000>>, <<22750, 28000>>, <<55100, 31000>>, <<115000, 36000>>,
                 <<250000, 39600>> >>
    @@ 1994 :> << <<0, 15000>>, <<23350, 28000>>, <<56550, 31000>>, <<117950, 36000>>,
                 <<256500, 39600>> >>
    @@ 1995 :> << <<0, 15000>>, <<23350, 28000>>, <<56550, 31000>>, <<117950, 36000>>,
                 <<256500, 39600>> >>
    @@ 1996 :> << <<0, 15000>>, <<24000, 28000>>, <<58150, 31000>>, <<121300, 36000>>,
                 <<263750, 39600>> >>
    @@ 1997 :> << <<0, 15000>>, <<24650, 28000>>, <<59750, 31000>>, <<124650, 36000>>,
                 <<271050, 39600>> >>
    @@ 1998 :> << <<0, 15000>>, <<25350, 28000>>, <<61400, 31000>>, <<128100, 36000>>,
                 <<278450, 39600>> >>
    @@ 1999 :> << <<0, 15000>>, <<25750, 28000>>, <<62450, 31000>>, <<130250, 36000>>,
                 <<283150, 39600>> >>
    @@ 2000 :> << <<0, 15000>>, <<26250, 28000>>, <<63550, 31000>>, <<132600, 36000>>,
                 <<288350, 39600>> >>
    @@ 2001 :> << <<0, 10000>>, <<6000, 15000>>, <<27050, 27500>>, <<65550, 30500>>,
                 <<136750, 35500>>, <<297350, 39100>> >>
    @@ 2002 :> << <<0, 10000>>, <<6000, 15000>>, <<27950, 27000>>, <<67700, 30000>>,
                 <<141250, 35000>>, <<307050, 38600>> >>
    @@ 2003 :> << <<0, 10000>>, <<7000, 15000>>, <<28400, 25000>>, <<68800, 28000>>,
                 <<143500, 33000>>, <<311950, 35000>> >>
    @@ 2004 :> << <<0, 10000>>, <<7150, 15000>>, <<29050, 25000>>, <<70350, 28000>>,
                 <<146750, 33000>>, <<319100, 35000>> >>
    @@ 2005 :> << <<0, 10000>>, <<7300, 15000>>, <<29700, 25000>>, <<71950, 28000>>,
                 <<150150, 33000>>, <<326450, 35000>> >>
    @@ 2006 :> << <<0, 10000>>, <<7550, 15000>>, <<30650, 25000>>, <<74200, 28000>>,
                 <<154800, 33000>>, <<336550, 35000>> >>
    @@ 2007 :> << <<0, 10000>>, <<7825, 15000>>, <<31850, 25000>>, <<77100, 28000>>,
                 <<160850, 33000>>, <<349700, 35000>> >>
    @@ 2008 :> << <<0, 10000>>, <<8025, 15000>>, <<32550, 25000>>, <<78850, 28000>>,
                 <<164550, 33000>>, <<357700, 35000>> >>
    @@ 2009 :> << <<0, 10000>>, <<8350, 15000>>, <<33950, 25000>>, <<82250, 28000>>,
                 <<171550, 33000>>, <<372950, 35000>> >>
    @@ 2010 :> << <<0, 10000>>, <<8375, 15000>>, <<34000, 25000>>, <<82400, 28000>>,
                 <<171850, 33000>>, <<373650, 35000>> >>
    @@ 2011 :> << <<0, 10000>>, <<8500, 15000>>, <<34500, 25000>>, <<83600, 28000>>,
                 <<174400, 33000>>, <<379150, 35000>> >>
    @@ 2012 :> << <<0, 10000>>, <<8700, 15000>>, <<35350, 25000>>, <<85650, 28000>>,
                 <<178650, 33000>>, <<388350, 35000>> >>
    @@ 2013 :> << <<0, 10000>>, <<8925, 15000>>, <<36250, 25000>>, <<87850, 28000>>,
                 <<183250, 33000>>, <<398350, 35000>>, <<400000, 39600>> >>
    @@ 2014 :> << <<0, 10000>>, <<9075, 15000>>, <<36900, 25000>>, <<89350, 28000>>,
                 <<186350, 33000>>, <<405100, 35000>>, <<406750, 39600>> >>
    @@ 2015 :> << <<0, 10000>>, <<9225, 15000>>, <<37450, 25000>>, <<90750, 28000>>,
                 <<189300, 33000>>, <<411500, 35000>>, <<413200, 39600>> >>
    @@ 2016 :> << <<0, 10000>>, <<9275, 15000>>, <<37650, 25000>>, <<91150, 28000>>,
                 <<190150, 33000>>, <<413350, 35000>>, <<415050, 39600>> >>
    @@ 2017 :> << <<0, 10000>>, <<9325, 15000>>, <<37950, 25000>>, <<91900, 28000>>,
                 <<191650, 33000>>, <<416700, 35000>>, <<418400, 39600>> >>
    @@ 2018 :> << <<0, 10000>>, <<9525, 12000>>, <<38700, 22000>>, <<82500, 24000>>,
                 <<157500, 32000>>, <<200000, 35000>>, <<500000, 37000>> >>
    @@ 2019 :> << <<0, 10000>>, <<9700, 12000>>, <<39475, 22000>>, <<84200, 24000>>,
                 <<160725, 32000>>, <<204100, 35000>>, <<510300, 37000>> >>
    @@ 2020 :> << <<0, 10000>>, <<9875, 12000>>, <<40125, 22000>>, <<85525, 24000>>,
                 <<163300, 32000>>, <<207350, 35000>>, <<518400, 37000>> >>
    @@ 2021 :> << <<0, 10000>>, <<9950, 12000>>, <<40525, 22000>>, <<86375, 24000>>,
                 <<164925, 32000>>, <<209425, 35000>>, <<523600, 37000>> >>
    @@ 2022 :> << <<0, 10000>>, <<10275, 12000>>, <<41775, 22000>>, <<89075, 24000>>,
                 <<170050, 32000>>, <<215950, 35000>>, <<539900, 37000>> >>
    @@ 2023 :> << <<0, 10000>>, <<11000, 12000>>, <<44725, 22000>>, <<95375, 24000>>,
                 <<182100, 32000>>, <<231250, 35000>>, <<578125, 37000>> >>
    @@ 2024 :> << <<0, 10000>>, <<11600, 12000>>, <<47150, 22000>>, <<100525, 24000>>,
                 <<191950, 32000>>, <<243725, 35000>>, <<609350, 37000>> >>
    @@ 2025 :> << <<0, 10000>>, <<11925, 12000>>, <<48475, 22000>>, <<103350, 24000>>,
                 <<197300, 32000>>, <<250525, 35000>>, <<626350, 37000>> >>

STANDARD_DEDUCTION ==
       1961 :> 1000 @@ 1962 :> 1000 @@ 1963 :> 1000 @@ 1964 :> 1000 @@ 1965 :> 1000
    @@ 1966 :> 1000 @@ 1967 :> 1000 @@ 1968 :> 1000 @@ 1969 :> 1000 @@ 1970 :> 1100
    @@ 1971 :> 1050 @@ 1972 :> 1300 @@ 1973 :> 1300 @@ 1974 :> 1300 @@ 1975 :> 1600
    @@ 1976 :> 1700 @@ 1977 :> 2200 @@ 1978 :> 2300 @@ 1979 :> 2300 @@ 1980 :> 2300
    @@ 1981 :> 2300 @@ 1982 :> 2300 @@ 1983 :> 2300 @@ 1984 :> 2390 @@ 1985 :> 2480
    @@ 1986 :> 2560 @@ 1987 :> 2540 @@ 1988 :> 3000 @@ 1989 :> 3100 @@ 1990 :> 3250
    @@ 1991 :> 3400 @@ 1992 :> 3600 @@ 1993 :> 3700 @@ 1994 :> 3800 @@ 1995 :> 3900
    @@ 1996 :> 4000 @@ 1997 :> 4150 @@ 1998 :> 4250 @@ 1999 :> 4300 @@ 2000 :> 4400
    @@ 2001 :> 4550 @@ 2002 :> 4700 @@ 2003 :> 4750 @@ 2004 :> 4850 @@ 2005 :> 5000
    @@ 2006 :> 5150 @@ 2007 :> 5350 @@ 2008 :> 5450 @@ 2009 :> 5700 @@ 2010 :> 5700
    @@ 2011 :> 5800 @@ 2012 :> 5950 @@ 2013 :> 6100 @@ 2014 :> 6200 @@ 2015 :> 6300
    @@ 2016 :> 6300 @@ 2017 :> 6350 @@ 2018 :> 12000 @@ 2019 :> 12200 @@ 2020 :> 12400
    @@ 2021 :> 12550 @@ 2022 :> 12950 @@ 2023 :> 13850 @@ 2024 :> 14600 @@ 2025 :> 15000

PERSONAL_EXEMPTION ==
       1961 :> 600 @@ 1962 :> 600 @@ 1963 :> 600 @@ 1964 :> 600 @@ 1965 :> 600
    @@ 1966 :> 600 @@ 1967 :> 600 @@ 1968 :> 600 @@ 1969 :> 600 @@ 1970 :> 625
    @@ 1971 :> 675 @@ 1972 :> 750 @@ 1973 :> 750 @@ 1974 :> 750 @@ 1975 :> 750
    @@ 1976 :> 750 @@ 1977 :> 750 @@ 1978 :> 750 @@ 1979 :> 1000 @@ 1980 :> 1000
    @@ 1981 :> 1000 @@ 1982 :> 1000 @@ 1983 :> 1000 @@ 1984 :> 1000 @@ 1985 :> 1040
    @@ 1986 :> 1080 @@ 1987 :> 1900 @@ 1988 :> 1950 @@ 1989 :> 2000 @@ 1990 :> 2050
    @@ 1991 :> 2150 @@ 1992 :> 2300 @@ 1993 :> 2350 @@ 1994 :> 2450 @@ 1995 :> 2500
    @@ 1996 :> 2550 @@ 1997 :> 2650 @@ 1998 :> 2700 @@ 1999 :> 2750 @@ 2000 :> 2800
    @@ 2001 :> 2900 @@ 2002 :> 3000 @@ 2003 :> 3050 @@ 2004 :> 3100 @@ 2005 :> 3200
    @@ 2006 :> 3300 @@ 2007 :> 3400 @@ 2008 :> 3500 @@ 2009 :> 3650 @@ 2010 :> 3650
    @@ 2011 :> 3700 @@ 2012 :> 3800 @@ 2013 :> 3900 @@ 2014 :> 3950 @@ 2015 :> 4000
    @@ 2016 :> 4050 @@ 2017 :> 4050 @@ 2018 :> 0 @@ 2019 :> 0 @@ 2020 :> 0
    @@ 2021 :> 0 @@ 2022 :> 0 @@ 2023 :> 0 @@ 2024 :> 0 @@ 2025 :> 0

SS_WAGE_BASE ==
       1961 :> 4800 @@ 1962 :> 4800 @@ 1963 :> 4800 @@ 1964 :> 4800 @@ 1965 :> 4800
    @@ 1966 :> 6600 @@ 1967 :> 6600 @@ 1968 :> 7800 @@ 1969 :> 7800 @@ 1970 :> 7800
    @@ 1971 :> 7800 @@ 1972 :> 9000 @@ 1973 :> 10800 @@ 1974 :> 13200 @@ 1975 :> 14100
    @@ 1976 :> 15300 @@ 1977 :> 16500 @@ 1978 :> 17700 @@ 1979 :> 22900 @@ 1980 :> 25900
    @@ 1981 :> 29700 @@ 1982 :> 32400 @@ 1983 :> 35700 @@ 1984 :> 37800 @@ 1985 :> 39600
    @@ 1986 :> 42000 @@ 1987 :> 43800 @@ 1988 :> 45000 @@ 1989 :> 48000 @@ 1990 :> 51300
    @@ 1991 :> 53400 @@ 1992 :> 55500 @@ 1993 :> 57600 @@ 1994 :> 60600 @@ 1995 :> 61200
    @@ 1996 :> 62700 @@ 1997 :> 65400 @@ 1998 :> 68400 @@ 1999 :> 72600 @@ 2000 :> 76200
    @@ 2001 :> 80400 @@ 2002 :> 84900 @@ 2003 :> 87000 @@ 2004 :> 87900 @@ 2005 :> 90000
    @@ 2006 :> 94200 @@ 2007 :> 97500 @@ 2008 :> 102000 @@ 2009 :> 106800 @@ 2010 :> 106800
    @@ 2011 :> 106800 @@ 2012 :> 110100 @@ 2013 :> 113700 @@ 2014 :> 117000 @@ 2015 :> 118500
    @@ 2016 :> 118500 @@ 2017 :> 127200 @@ 2018 :> 128400 @@ 2019 :> 132900 @@ 2020 :> 137700
    @@ 2021 :> 142800 @@ 2022 :> 147000 @@ 2023 :> 160200 @@ 2024 :> 168600 @@ 2025 :> 176100

SS_RATE_LITERAL ==
       1961 :> 3000 @@ 1962 :> 3125 @@ 1963 :> 3625 @@ 1964 :> 3625 @@ 1965 :> 3625
    @@ 1966 :> 3850 @@ 1967 :> 3900 @@ 1968 :> 3800 @@ 1969 :> 4200 @@ 1970 :> 4200
    @@ 1971 :> 4600 @@ 1972 :> 4600 @@ 1973 :> 4850 @@ 1974 :> 4950 @@ 1975 :> 4950
    @@ 1976 :> 4950 @@ 1977 :> 4950 @@ 1978 :> 5050 @@ 1979 :> 5080 @@ 1980 :> 5080
    @@ 1981 :> 5350 @@ 1982 :> 5400 @@ 1983 :> 5400 @@ 1984 :> 5700 @@ 1985 :> 5700
    @@ 1986 :> 5700 @@ 1987 :> 5700 @@ 1988 :> 6060 @@ 1989 :> 6060 @@ 1990 :> 6200
    @@ 1991 :> 6200 @@ 1992 :> 6200 @@ 1993 :> 6200 @@ 1994 :> 6200

MEDICARE_RATE_LITERAL ==
       1961 :> 0 @@ 1962 :> 0 @@ 1963 :> 0 @@ 1964 :> 0 @@ 1965 :> 0
    @@ 1966 :> 350 @@ 1967 :> 500 @@ 1968 :> 600 @@ 1969 :> 600 @@ 1970 :> 600
    @@ 1971 :> 600 @@ 1972 :> 600 @@ 1973 :> 1000 @@ 1974 :> 900 @@ 1975 :> 900
    @@ 1976 :> 900 @@ 1977 :> 900 @@ 1978 :> 1000 @@ 1979 :> 1050 @@ 1980 :> 1050
    @@ 1981 :> 1300 @@ 1982 :> 1300 @@ 1983 :> 1300 @@ 1984 :> 1300 @@ 1985 :> 1350
    @@ 1986 :> 1450 @@ 1987 :> 1450 @@ 1988 :> 1450 @@ 1989 :> 1450 @@ 1990 :> 1450
    @@ 1991 :> 1450 @@ 1992 :> 1450 @@ 1993 :> 1450 @@ 1994 :> 1450


\* An SS_RATE whose holiday entries hold the cut (-0.02), not the rate.
SS_RATE_holiday_delta ==
    [y \in 1961..2025 |->
        IF y \in {2011, 2012} THEN -2000
        ELSE IF y \in 1995..2025 THEN 6200
        ELSE SS_RATE_LITERAL[y]]

\* An SS_RATE filled by range(1995, 2025): the last year is missing.
SS_RATE_short_loop ==
    [y \in 1961..2024 |->
        IF y \in {2011, 2012} THEN 4200
        ELSE IF y \in 1995..2024 THEN 6200
        ELSE SS_RATE_LITERAL[y]]

\* for _yr in range(1995, 2026): SS_RATE[_yr] = 0.062; then the 2011/2012
\* payroll tax holiday overwrites two entries.
SS_RATE ==
    [y \in 1961..2025 |->
        IF y \in {2011, 2012} THEN 4200
        ELSE IF y \in 1995..2025 THEN 6200
        ELSE SS_RATE_LITERAL[y]]

\* for _yr in range(1995, 2026): MEDICARE_RATE[_yr] = 0.0145
MEDICARE_RATE ==
    [y \in 1961..2025 |->
        IF y \in 1995..2025 THEN 1450 ELSE MEDICARE_RATE_LITERAL[y]]

MEDICARE_UNCAPPED_START_YEAR == 1994

\* dollars
ADDITIONAL_MEDICARE_THRESHOLD == 200000
\* 0.009
ADDITIONAL_MEDICARE_RATE == 900
ADDITIONAL_MEDICARE_START_YEAR == 2013

\* 0.05
DEFAULT_STATE_RATE == 5000

MIN_TAX_YEAR ==
    CHOOSE y \in DOMAIN FEDERAL_BRACKETS : \A z \in DOMAIN FEDERAL_BRACKETS : y <= z
MAX_TAX_YEAR ==
    CHOOSE y \in DOMAIN FEDERAL_BRACKETS : \A z \in DOMAIN FEDERAL_BRACKETS : y >= z

\* A clamp that lands one year inside the table range.
ClampYear_one_inside(y) ==
    IF y < MIN_TAX_YEAR THEN MIN_TAX_YEAR + 1
    ELSE IF y > MAX_TAX_YEAR THEN MAX_TAX_YEAR - 1
    ELSE y

\* year = max(MIN_TAX_YEAR, min(MAX_TAX_YEAR, year))
ClampYear(y) == Max(MIN_TAX_YEAR, Min(MAX_TAX_YEAR, y))

(***************************************************************************)
(* Tax computation.  Arguments and results in mills.                       *)
(***************************************************************************)

\* A bracket loop that forgets min(taxable, next_threshold): every bracket
\* it visits is taxed in full.
RECURSIVE BracketLoop_full_bracket(_, _, _, _)
BracketLoop_full_bracket(brackets, taxable, i, tax) ==
    LET threshold == Dollars(brackets[i][1])
        rate == brackets[i][2]
        has_next == i + 1 <= Len(brackets)
        bracket_income ==
            IF has_next
            THEN Dollars(brackets[i + 1][1]) - threshold
            ELSE taxable - threshold
        tax2 == IF bracket_income > 0 THEN tax + MulRate(bracket_income, rate) ELSE tax
    IN  IF has_next /\ taxable <= Dollars(brackets[i + 1][1]) THEN tax2
        ELSE IF ~has_next THEN tax2
        ELSE BracketLoop_full_bracket(brackets, taxable, i + 1, tax2)

\* The body of "for i, (threshold, rate) in enumerate(brackets)", from
\* bracket i (1-based) with the tax accumulated so far.
RECURSIVE BracketLoop(_, _, _, _)
BracketLoop(brackets, taxable, i, tax) ==
    LET threshold == Dollars(brackets[i][1])
        rate == brackets[i][2]
        has_next == i + 1 <= Len(brackets)
        bracket_income ==
            IF has_next
            THEN Min(taxable, Dollars(brackets[i + 1][1])) - threshold
            ELSE taxable - threshold
        tax2 == IF bracket_income > 0 THEN tax + MulRate(bracket_income, rate) ELSE tax
    IN  IF has_next /\ taxable <= Dollars(brackets[i + 1][1]) THEN tax2
        ELSE IF ~has_next THEN tax2
        ELSE BracketLoop(brackets, taxable, i + 1, tax2)

\* A federal tax without the floor on taxable income and without the
\* "taxable <= 0" return.
compute_federal_tax_unfloored(gross, y) ==
    IF gross <= 0 THEN 0
    ELSE LET yr == ClampYear(y)
             taxable == gross - Dollars(STANDARD_DEDUCTION[yr])
                              - Dollars(PERSONAL_EXEMPTION[yr])
         IN  IF taxable <= 0
             THEN -MulRate(-taxable, FEDERAL_BRACKETS[yr][1][2])
             ELSE BracketLoop(FEDERAL_BRACKETS[yr], taxable, 1, 0)

\* A federal tax that forgets the standard deduction.
compute_federal_tax_no_deduction(gross, y) ==
    IF gross <= 0 THEN 0
    ELSE LET yr == ClampYear(y)
             taxable == Max(0, gross - Dollars(PERSONAL_EXEMPTION[yr]))
         IN  IF taxable <= 0 THEN 0
             ELSE BracketLoop(FEDERAL_BRACKETS[yr], taxable, 1, 0)

compute_federal_tax(gross, y) ==
    IF gross <= 0 THEN 0
    ELSE LET yr == ClampYear(y)
             std_ded == Dollars(STANDARD_DEDUCTION[yr])
             pers_exempt == Dollars(PERSONAL_EXEMPTION[yr])
             taxable == Max(0, gross - std_ded - pers_exempt)
         IN  IF taxable <= 0 THEN 0
             ELSE BracketLoop(FEDERAL_BRACKETS[yr], taxable, 1, 0)

\* A FICA whose surtax base is capped at the Social-Security wage base.
compute_fica_surtax_capped(gross, y) ==
    IF gross <= 0 THEN 0
    ELSE LET yr == ClampYear(y)
             ss_tax == MulRate(Min(gross, Dollars(SS_WAGE_BASE[yr])), SS_RATE[yr])
             medicare_tax ==
                 IF yr >= MEDICARE_UNCAPPED_START_YEAR
                 THEN MulRate(gross, MEDICARE_RATE[yr])
                 ELSE MulRate(Min(gross, Dollars(SS_WAGE_BASE[yr])), MEDICARE_RATE[yr])
             additional ==
                 IF yr >= ADDITIONAL_MEDICARE_START_YEAR
                    /\ gross > Dollars(ADDITIONAL_MEDICARE_THRESHOLD)
                 THEN MulRate(Max(0, Min(gross, Dollars(SS_WAGE_BASE[yr]))
                                     - Dollars(ADDITIONAL_MEDICARE_THRESHOLD)),
                              ADDITIONAL_MEDICARE_RATE)
                 ELSE 0
         IN  ss_tax + (medicare_tax + additional)

\* A FICA that leaves out the Medicare component.
compute_fica_no_medicare(gross, y) ==
    IF gross <= 0 THEN 0
    ELSE LET yr == ClampYear(y)
         IN  MulRate(Min(gross, Dollars(SS_WAGE_BASE[yr])), SS_RATE[yr])

\* A FICA whose Medicare component is uncapped in every year.
compute_fica_medicare_uncapped(gross, y) ==
    IF gross <= 0 THEN 0
    ELSE LET yr == ClampYear(y)
             ss_tax == MulRate(Min(gross, Dollars(SS_WAGE_BASE[yr])), SS_RATE[yr])
             medicare_tax == MulRate(gross, MEDICARE_RATE[yr])
             additional ==
                 IF yr >= ADDITIONAL_MEDICARE_START_YEAR
                    /\ gross > Dollars(ADDITIONAL_MEDICARE_THRESHOLD)
                 THEN MulRate(gross - Dollars(ADDITIONAL_MEDICARE_THRESHOLD),
                              ADDITIONAL_MEDICARE_RATE)
                 ELSE 0
         IN  ss_tax + (medicare_tax + additional)

compute_fica(gross, y) ==
    IF gross <= 0 THEN 0
    ELSE LET yr == ClampYear(y)
             ss_income == Min(gross, Dollars(SS_WAGE_BASE[yr]))
             ss_tax == MulRate(ss_income, SS_RATE[yr])
             med_rate == MEDICARE_RATE[yr]
             medicare_tax ==
                 IF yr >= MEDICARE_UNCAPPED_START_YEAR
                 THEN MulRate(gross, med_rate)
                 ELSE MulRate(Min(gross, Dollars(SS_WAGE_BASE[yr])), med_rate)
             additional ==
                 IF yr >= ADDITIONAL_MEDICARE_START_YEAR
                    /\ gross > Dollars(ADDITIONAL_MEDICARE_THRESHOLD)
                 THEN MulRate(gross - Dollars(ADDITIONAL_MEDICARE_THRESHOLD),
                              ADDITIONAL_MEDICARE_RATE)
                 ELSE 0
         IN  ss_tax + (medicare_tax + additional)

\* A state tax four times the flat rate.
compute_state_tax_fourfold(gross, y, rate) ==
    IF gross <= 0 \/ rate <= 0 THEN 0
    ELSE LET yr == ClampYear(y)
             taxable == Max(0, gross - Dollars(STANDARD_DEDUCTION[yr]))
         IN  MulRate(taxable, 4 * rate)

compute_state_tax(gross, y, rate) ==
    IF gross <= 0 \/ rate <= 0 THEN 0
    ELSE LET yr == ClampYear(y)
             taxable == Max(0, gross - Dollars(STANDARD_DEDUCTION[yr]))
         IN  MulRate(taxable, rate)

\* One decimal digit of r / g (0 <= r < g): <<digit, remainder>>.
DivDigit(r, g) ==
    LET t == r * 5
        t2 == (t % g) * 2
    IN  <<2 * (t \div g) + t2 \div g, t2 % g>>

\* round(total / gross, 4) for gross > 0, total >= 0, in units of 1/10000,
\* ties to even.
RoundRate4(total, gross) ==
    LET q  == total \div gross
        d1 == DivDigit(total % gross, gross)
        d2 == DivDigit(d1[2], gross)
        d3 == DivDigit(d2[2], gross)
        d4 == DivDigit(d3[2], gross)
        n  == q * 10000 + d1[1] * 1000 + d2[1] * 100 + d3[1] * 10 + d4[1]
        r  == d4[2]
    IN  IF 2 * r > gross \/ (2 * r = gross /\ n % 2 = 1) THEN n + 1 ELSE n

\* An after-tax income without the floor at zero.
compute_after_tax_unfloored(gross, y, rate) ==
    IF gross <= 0
    THEN [after_tax |-> gross,
          detail |-> [federal |-> 0, fica |-> 0, state |-> 0, total |-> 0]]
    ELSE LET federal == compute_federal_tax(gross, y)
             fica == compute_fica(gross, y)
             state == compute_state_tax(gross, y, rate)
             total_tax == federal + fica + state
         IN  [after_tax |-> gross - total_tax,
              detail |-> [federal |-> Round2(federal),
                          fica |-> Round2(fica),
                          state |-> Round2(state),
                          total |-> Round2(total_tax),
                          effective_rate |-> RoundRate4(total_tax, gross)]]

\* Returns (after_tax_income, tax_detail_dict) as a record.
compute_after_tax(gross, y, rate) ==
    IF gross <= 0
    THEN [after_tax |-> gross,
          detail |-> [federal |-> 0, fica |-> 0, state |-> 0, total |-> 0]]
    ELSE LET federal == compute_federal_tax(gross, y)
             fica == compute_fica(gross, y)
             state == compute_state_tax(gross, y, rate)
             total_tax == federal + fica + state
         IN  [after_tax |-> Max(0, gross - total_tax),
              detail |-> [federal |-> Round2(federal),
                          fica |-> Round2(fica),
                          state |-> Round2(state),
                          total |-> Round2(total_tax),
                          effective_rate |->
                              IF gross > 0 THEN RoundRate4(total_tax, gross) ELSE 0]]

(***************************************************************************)
(* Historical tax data, 1961-1994 (historical_tax_data.py).  A bracket is  *)
(* <<upper bound in dollars, rate in 1/100000>>.                           *)
(***************************************************************************)
\* float('inf'), the upper bound of the top bracket: a dollar amount above
\* every income of the model.
inf == 2000000

TAX_DATA ==
       1961 :> [brackets |-> <<
               <<2000, 20000>>, <<4000, 22000>>, <<6000, 26000>>,
               <<8000, 30000>>, <<10000, 34000>>, <<12000, 38000>>,
               <<14000, 43000>>, <<16000, 47000>>, <<18000, 50000>>,
               <<20000, 53000>>, <<22000, 56000>>, <<26000, 59000>>,
               <<32000, 62000>>, <<38000, 65000>>, <<44000, 69000>>,
               <<50000, 72000>>, <<60000, 75000>>, <<70000, 78000>>,
               <<80000, 81000>>, <<90000, 84000>>, <<100000, 87000>>,
               <<150000, 89000>>, <<200000, 90000>>, <<inf, 91000>> >>,
            standard_deduction |-> 1000, personal_exemption |-> 600,
            ss_wage_base |-> 4800, ss_rate |-> 3000, medicare_rate |-> 0]
    @@ 1962 :> [brackets |-> <<
               <<2000, 20000>>, <<4000, 22000>>, <<6000, 26000>>,
               <<8000, 30000>>, <<10000, 34000>>, <<12000, 38000>>,
               <<14000, 43000>>, <<16000, 47000>>, <<18000, 50000>>,
               <<20000, 53000>>, <<22000, 56000>>, <<26000, 59000>>,
               <<32000, 62000>>, <<38000, 65000>>, <<44000, 69000>>,
               <<50000, 72000>>, <<60000, 75000>>, <<70000, 78000>>,
               <<80000, 81000>>, <<90000, 84000>>, <<100000, 87000>>,
               <<150000, 89000>>, <<200000, 90000>>, <<inf, 91000>> >>,
            standard_deduction |-> 1000, personal_exemption |-> 600,
            ss_wage_base |-> 4800, ss_rate |-> 3125, medicare_rate |-> 0]
    @@ 1963 :> [brackets |-> <<
               <<500, 16000>>, <<1000, 17000>>, <<1500, 18000>>,
               <<2000, 18000>>, <<4000, 20000>>, <<6000, 24000>>,
               <<8000, 27000>>, <<10000, 31000>>, <<12000, 34000>>,
               <<14000, 38000>>, <<16000, 41000>>, <<18000, 45000>>,
               <<20000, 48000>>, <<22000, 51000>>, <<26000, 54000>>,
               <<32000, 56000>>, <<38000, 59000>>, <<44000, 61000>>,
               <<50000, 64000>>, <<60000, 66000>>, <<70000, 69000>>,
               <<80000, 71000>>, <<90000, 74000>>, <<100000, 75000>>,
               <<inf, 77000>> >>,
            standard_deduction |-> 1000, personal_exemption |-> 600,
            ss_wage_base |-> 4800, ss_rate |-> 3625, medicare_rate |-> 0]
    @@ 1964 :> [brackets |-> <<
               <<500, 14000>>, <<1000, 15000>>, <<1500, 16000>>,
               <<2000, 17000>>, <<4000, 19000>>, <<6000, 22000>>,
               <<8000, 25000>>, <<10000, 28000>>, <<12000, 32000>>,
               <<14000, 36000>>, <<16000, 39000>>, <<18000, 42000>>,
               <<20000, 45000>>, <<22000, 48000>>, <<26000, 50000>>,
               <<32000, 53000>>, <<38000, 55000>>, <<44000, 58000>>,
               <<50000, 60000>>, <<60000, 62000>>, <<70000, 64000>>,
               <<80000, 66000>>, <<90000, 68000>>, <<100000, 69000>>,
               <<inf, 70000>> >>,
            standard_deduction |-> 1000, personal_exemption |-> 600,
            ss_wage_base |-> 4800, ss_rate |-> 3625, medicare_rate |-> 0]
    @@ 1965 :> [brackets |-> <<
               <<500, 14000>>, <<1000, 15000>>, <<1500, 16000>>,
               <<2000, 17000>>, <<4000, 19000>>, <<6000, 22000>>,
               <<8000, 25000>>, <<10000, 28000>>, <<12000, 32000>>,
               <<14000, 36000>>, <<16000, 39000>>, <<18000, 42000>>,
               <<20000, 45000>>, <<22000, 48000>>, <<26000, 50000>>,
               <<32000, 53000>>, <<38000, 55000>>, <<44000, 58000>>,
               <<50000, 60000>>, <<60000, 62000>>, <<70000, 64000>>,
               <<80000, 66000>>, <<90000, 68000>>, <<100000, 69000>>,
               <<inf, 70000>> >>,
            standard_deduction |-> 1000, personal_exemption |-> 600,
            ss_wage_base |-> 4800, ss_rate |-> 3625, medicare_rate |-> 0]
    @@ 1966 :> [brackets |-> <<
               <<500, 14000>>, <<1000, 15000>>, <<1500, 16000>>,
               <<2000, 17000>>, <<4000, 19000>>, <<6000, 22000>>,
               <<8000, 25000>>, <<10000, 28000>>, <<12000, 32000>>,
               <<14000, 36000>>, <<16000, 39000>>, <<18000, 42000>>,
               <<20000, 45000>>, <<22000, 48000>>, <<26000, 50000>>,
               <<32000, 53000>>, <<38000, 55000>>, <<44000, 58000>>,
               <<50000, 60000>>, <<60000, 62000>>, <<70000, 64000>>,
               <<80000, 66000>>, <<90000, 68000>>, <<100000, 69000>>,
               <<inf, 70000>> >>,
            standard_deduction |-> 1000, personal_exemption |-> 600,
            ss_wage_base |-> 6600, ss_rate |-> 3850, medicare_rate |-> 350]
    @@ 1967 :> [brackets |-> <<
               <<500, 14000>>, <<1000, 15000>>, <<1500, 16000>>,
               <<2000, 17000>>, <<4000, 19000>>, <<6000, 22000>>,
               <<8000, 25000>>, <<10000, 28000>>, <<12000, 32000>>,
               <<14000, 36000>>, <<16000, 39000>>, <<18000, 42000>>,
               <<20000, 45000>>, <<22000, 48000>>, <<26000, 50000>>,
               <<32000, 53000>>, <<38000, 55000>>, <<44000, 58000>>,
               <<50000, 60000>>, <<60000, 62000>>, <<70000, 64000>>,
               <<80000, 66000>>, <<90000, 68000>>, <<100000, 69000>>,
               <<inf, 70000>> >>,
            standard_deduction |-> 1000, personal_exemption |-> 600,
            ss_wage_base |-> 6600, ss_rate |-> 3900, medicare_rate |-> 500]
    @@ 1968 :> [brackets |-> <<
               <<500, 14000>>, <<1000, 15000>>, <<1500, 16000>>,
               <<2000, 17000>>, <<4000, 19000>>, <<6000, 22000>>,
               <<8000, 25000>>, <<10000, 28000>>, <<12000, 32000>>,
               <<14000, 36000>>, <<16000, 39000>>, <<18000, 42000>>,
               <<20000, 45000>>, <<22000, 48000>>, <<26000, 50000>>,
               <<32000, 53000>>, <<38000, 55000>>, <<44000, 58000>>,
               <<50000, 60000>>, <<60000, 62000>>, <<70000, 64000>>,
               <<80000, 66000>>, <<90000, 68000>>, <<100000, 69000>>,
               <<inf, 70000>> >>,
            standard_deduction |-> 1000, personal_exemption |-> 600,
            ss_wage_base |-> 7800, ss_rate |-> 3800, medicare_rate |-> 600]
    @@ 1969 :> [brackets |-> <<
               <<500, 14000>>, <<1000, 15000>>, <<1500, 16000>>,
               <<2000, 17000>>, <<4000, 19000>>, <<6000, 22000>>,
               <<8000, 25000>>, <<10000, 28000>>, <<12000, 32000>>,
               <<14000, 36000>>, <<16000, 39000>>, <<18000, 42000>>,
               <<20000, 45000>>, <<22000, 48000>>, <<26000, 50000>>,
               <<32000, 53000>>, <<38000, 55000>>, <<44000, 58000>>,
               <<50000, 60000>>, <<60000, 62000>>, <<70000, 64000>>,
               <<80000, 66000>>, <<90000, 68000>>, <<100000, 69000>>,
               <<inf, 70000>> >>,
            standard_deduction |-> 1000, personal_exemption |-> 600,
            ss_wage_base |-> 7800, ss_rate |-> 4200, medicare_rate |-> 600]
    @@ 1970 :> [brackets |-> <<
               <<500, 14000>>, <<1000, 15000>>, <<1500, 16000>>,
               <<2000, 17000>>, <<4000, 19000>>, <<6000, 21000>>,
               <<8000, 24000>>, <<10000, 25000>>, <<12000, 27000>>,
               <<14000, 29000>>, <<16000, 31000>>, <<18000, 34000>>,
               <<20000, 36000>>, <<22000, 38000>>, <<26000, 40000>>,
               <<32000, 45000>>, <<38000, 50000>>, <<44000, 55000>>,
               <<50000, 60000>>, <<60000, 62000>>, <<70000, 64000>>,
               <<80000, 66000>>, <<90000, 68000>>, <<100000, 69000>>,
               <<inf, 70000>> >>,
            standard_deduction |-> 1100, personal_exemption |-> 625,
            ss_wage_base |-> 7800, ss_rate |-> 4200, medicare_rate |-> 600]
    @@ 1971 :> [brackets |-> <<
               <<500, 14000>>, <<1000, 15000>>, <<1500, 16000>>,
               <<2000, 17000>>, <<4000, 19000>>, <<6000, 21000>>,
               <<8000, 24000>>, <<10000, 25000>>, <<12000, 27000>>,
               <<14000, 29000>>, <<16000, 31000>>, <<18000, 34000>>,
               <<20000, 36000>>, <<22000, 38000>>, <<26000, 40000>>,
               <<32000, 45000>>, <<38000, 50000>>, <<44000, 55000>>,
               <<50000, 60000>>, <<60000, 62000>>, <<70000, 64000>>,
               <<80000, 66000>>, <<90000, 68000>>, <<100000, 69000>>,
               <<inf, 70000>> >>,
            standard_deduction |-> 1050, personal_exemption |-> 675,
            ss_wage_base |-> 7800, ss_rate |-> 4600, medicare_rate |-> 600]
    @@ 1972 :> [brackets |-> <<
               <<500, 14000>>, <<1000, 15000>>, <<1500, 16000>>,
               <<2000, 17000>>, <<4000, 19000>>, <<6000, 21000>>,
               <<8000, 24000>>, <<10000, 25000>>, <<12000, 27000>>,
               <<14000, 29000>>, <<16000, 31000>>, <<18000, 34000>>,
               <<20000, 36000>>, <<22000, 38000>>, <<26000, 40000>>,
               <<32000, 45000>>, <<38000, 50000>>, <<44000, 55000>>,
               <<50000, 60000>>, <<60000, 62000>>, <<70000, 64000>>,
               <<80000, 66000>>, <<90000, 68000>>, <<100000, 69000>>,
               <<inf, 70000>> >>,
            standard_deduction |-> 1300, personal_exemption |-> 750,
            ss_wage_base |-> 9000, ss_rate |-> 4600, medicare_rate |-> 600]
    @@ 1973 :> [brackets |-> <<
               <<500, 14000>>, <<1000, 15000>>, <<1500, 16000>>,
               <<2000, 17000>>, <<4000, 19000>>, <<6000, 21000>>,
               <<8000, 24000>>, <<10000, 25000>>, <<12000, 27000>>,
               <<14000, 29000>>, <<16000, 31000>>, <<18000, 34000>>,
               <<20000, 36000>>, <<22000, 38000>>, <<26000, 40000>>,
               <<32000, 45000>>, <<38000, 50000>>, <<44000, 55000>>,
               <<50000, 60000>>, <<60000, 62000>>, <<70000, 64000>>,
               <<80000, 66000>>, <<90000, 68000>>, <<100000, 69000>>,
               <<inf, 70000>> >>,
            standard_deduction |-> 1300, personal_exemption |-> 750,
            ss_wage_base |-> 10800, ss_rate |-> 4850, medicare_rate |-> 1000]
    @@ 1974 :> [brackets |-> <<
               <<500, 14000>>, <<1000, 15000>>, <<1500, 16000>>,
               <<2000, 17000>>, <<4000, 19000>>, <<6000, 21000>>,
               <<8000, 24000>>, <<10000, 25000>>, <<12000, 27000>>,
               <<14000, 29000>>, <<16000, 31000>>, <<18000, 34000>>,
               <<20000, 36000>>, <<22000, 38000>>, <<26000, 40000>>,
               <<32000, 45000>>, <<38000, 50000>>, <<44000, 55000>>,
               <<50000, 60000>>, <<60000, 62000>>, <<70000, 64000>>,
               <<80000, 66000>>, <<90000, 68000>>, <<100000, 69000>>,
               <<inf, 70000>> >>,
            standard_deduction |-> 1300, personal_exemption |-> 750,
            ss_wage_base |-> 13200, ss_rate |-> 4950, medicare_rate |-> 900]
    @@ 1975 :> [brackets |-> <<
               <<500, 14000>>, <<1000, 15000>>, <<1500, 16000>>,
               <<2000, 17000>>, <<4000, 19000>>, <<6000, 21000>>,
               <<8000, 24000>>, <<10000, 25000>>, <<12000, 27000>>,
               <<14000, 29000>>, <<16000, 31000>>, <<18000, 34000>>,
               <<20000, 36000>>, <<22000, 38000>>, <<26000, 40000>>,
               <<32000, 45000>>, <<38000, 50000>>, <<44000, 55000>>,
               <<50000, 60000>>, <<60000, 62000>>, <<70000, 64000>>,
               <<80000, 66000>>, <<90000, 68000>>, <<100000, 69000>>,
               <<inf, 70000>> >>,
            standard_deduction |-> 1600, personal_exemption |-> 750,
            ss_wage_base |-> 14100, ss_rate |-> 4950, medicare_rate |-> 900]
    @@ 1976 :> [brackets |-> <<
               <<500, 14000>>, <<1000, 15000>>, <<1500, 16000>>,
               <<2000, 17000>>, <<4000, 19000>>, <<6000, 21000>>,
               <<8000, 24000>>, <<10000, 25000>>, <<12000, 27000>>,
               <<14000, 29000>>, <<16000, 31000>>, <<18000, 34000>>,
               <<20000, 36000>>, <<22000, 38000>>, <<26000, 40000>>,
               <<32000, 45000>>, <<38000, 50000>>, <<44000, 55000>>,
               <<50000, 60000>>, <<60000, 62000>>, <<70000, 64000>>,
               <<80000, 66000>>, <<90000, 68000>>, <<100000, 69000>>,
               <<inf, 70000>> >>,
            standard_deduction |-> 1700, personal_exemption |-> 750,
            ss_wage_base |-> 15300, ss_rate |-> 4950, medicare_rate |-> 900]
    @@ 1977 :> [brackets |-> <<
               <<500, 14000>>, <<1000, 15000>>, <<1500, 16000>>,
               <<2000, 17000>>, <<4000, 19000>>, <<6000, 21000>>,
               <<8000, 24000>>, <<10000, 25000>>, <<12000, 27000>>,
               <<14000, 29000>>, <<16000, 31000>>, <<18000, 34000>>,
               <<20000, 36000>>, <<22000, 38000>>, <<26000, 40000>>,
               <<32000, 45000>>, <<38000, 50000>>, <<44000, 55000>>,
               <<50000, 60000>>, <<60000, 62000>>, <<70000, 64000>>,
               <<80000, 66000>>, <<90000, 68000>>, <<100000, 69000>>,
               <<inf, 70000>> >>,
            standard_deduction |-> 2200, personal_exemption |-> 750,
            ss_wage_base |-> 16500, ss_rate |-> 4950, medicare_rate |-> 900]
    @@ 1978 :> [brackets |-> <<
               <<1100, 14000>>, <<2100, 16000>>, <<4200, 18000>>,
               <<6200, 19000>>, <<8500, 21000>>, <<10600, 24000>>,
               <<12700, 26000>>, <<15900, 30000>>, <<21200, 34000>>,
               <<26500, 39000>>, <<31800, 44000>>, <<39200, 49000>>,
               <<53000, 55000>>, <<79500, 63000>>, <<106000, 68000>>,
               <<inf, 70000>> >>,
            standard_deduction |-> 2300, personal_exemption |-> 750,
            ss_wage_base |-> 17700, ss_rate |-> 5050, medicare_rate |-> 1000]
    @@ 1979 :> [brackets |-> <<
               <<1100, 14000>>, <<2100, 16000>>, <<4200, 18000>>,
               <<6200, 19000>>, <<8500, 21000>>, <<10600, 24000>>,
               <<12700, 26000>>, <<15900, 30000>>, <<21200, 34000>>,
               <<26500, 39000>>, <<31800, 44000>>, <<39200, 49000>>,
               <<53000, 55000>>, <<79500, 63000>>, <<106000, 68000>>,
               <<inf, 70000>> >>,
            standard_deduction |-> 2300, personal_exemption |-> 1000,
            ss_wage_base |-> 22900, ss_rate |-> 5080, medicare_rate |-> 1050]
    @@ 1980 :> [brackets |-> <<
               <<1100, 14000>>, <<2100, 16000>>, <<4200, 18000>>,
               <<6200, 19000>>, <<8500, 21000>>, <<10600, 24000>>,
               <<12700, 26000>>, <<15900, 30000>>, <<21200, 34000>>,
               <<26500, 39000>>, <<31800, 44000>>, <<39200, 49000>>,
               <<53000, 55000>>, <<79500, 63000>>, <<106000, 68000>>,
               <<inf, 70000>> >>,
            standard_deduction |-> 2300, personal_exemption |-> 1000,
            ss_wage_base |-> 25900, ss_rate |-> 5080, medicare_rate |-> 1050]
    @@ 1981 :> [brackets |-> <<
               <<1100, 12000>>, <<2100, 14000>>, <<4200, 16000>>,
               <<6200, 17000>>, <<8500, 19000>>, <<10600, 22000>>,
               <<12700, 23000>>, <<15900, 27000>>, <<21200, 31000>>,
               <<26500, 35000>>, <<31800, 40000>>, <<39200, 44000>>,
               <<inf, 50000>> >>,
            standard_deduction |-> 2300, personal_exemption |-> 1000,
            ss_wage_base |-> 29700, ss_rate |-> 5350, medicare_rate |-> 1300]
    @@ 1982 :> [brackets |-> <<
               <<1100, 11000>>, <<2100, 13000>>, <<6200, 15000>>,
               <<8500, 17000>>, <<10600, 19000>>, <<12700, 21000>>,
               <<15900, 24000>>, <<21200, 28000>>, <<26500, 32000>>,
               <<31800, 36000>>, <<39200, 40000>>, <<53000, 45000>>,
               <<inf, 50000>> >>,
            standard_deduction |-> 2300, personal_exemption |-> 1000,
            ss_wage_base |-> 32400, ss_rate |-> 5400, medicare_rate |-> 1300]
    @@ 1983 :> [brackets |-> <<
               <<1100, 11000>>, <<2100, 12000>>, <<4200, 14000>>,
               <<6200, 15000>>, <<8500, 16000>>, <<10600, 18000>>,
               <<12700, 20000>>, <<15900, 23000>>, <<21200, 26000>>,
               <<26500, 30000>>, <<31800, 34000>>, <<39200, 38000>>,
               <<53000, 42000>>, <<79500, 48000>>, <<inf, 50000>> >>,
            standard_deduction |-> 2300, personal_exemption |-> 1000,
            ss_wage_base |-> 35700, ss_rate |-> 5400, medicare_rate |-> 1300]
    @@ 1984 :> [brackets |-> <<
               <<1150, 11000>>, <<2190, 12000>>, <<4370, 14000>>,
               <<6460, 15000>>, <<8850, 16000>>, <<11040, 18000>>,
               <<13220, 20000>>, <<16550, 23000>>, <<22070, 26000>>,
               <<27580, 30000>>, <<33100, 34000>>, <<40800, 38000>>,
               <<55160, 42000>>, <<82740, 48000>>, <<inf, 50000>> >>,
            standard_deduction |-> 2390, personal_exemption |-> 1000,
            ss_wage_base |-> 37800, ss_rate |-> 5700, medicare_rate |-> 1300]
    @@ 1985 :> [brackets |-> <<
               <<1190, 11000>>, <<2270, 12000>>, <<4530, 14000>>,
               <<6690, 15000>>, <<9170, 16000>>, <<11440, 18000>>,
               <<13710, 20000>>, <<17160, 23000>>, <<22880, 26000>>,
               <<28600, 30000>>, <<34320, 34000>>, <<42300, 38000>>,
               <<57190, 42000>>, <<85790, 48000>>, <<inf, 50000>> >>,
            standard_deduction |-> 2480, personal_exemption |-> 1040,
            ss_wage_base |-> 39600, ss_rate |-> 5700, medicare_rate |-> 1350]
    @@ 1986 :> [brackets |-> <<
               <<1230, 11000>>, <<2340, 12000>>, <<4680, 14000>>,
               <<6910, 15000>>, <<9460, 16000>>, <<11820, 18000>>,
               <<14160, 20000>>, <<17710, 23000>>, <<23610, 26000>>,
               <<29510, 30000>>, <<35420, 34000>>, <<43650, 38000>>,
               <<59000, 42000>>, <<88540, 48000>>, <<inf, 50000>> >>,
            standard_deduction |-> 2560, personal_exemption |-> 1080,
            ss_wage_base |-> 42000, ss_rate |-> 5700, medicare_rate |-> 1450]
    @@ 1987 :> [brackets |-> <<
               <<17850, 15000>>, <<inf, 28000>> >>,
            standard_deduction |-> 2540, personal_exemption |-> 1900,
            ss_wage_base |-> 43800, ss_rate |-> 5700, medicare_rate |-> 1450]
    @@ 1988 :> [brackets |-> <<
               <<18550, 15000>>, <<inf, 28000>> >>,
            standard_deduction |-> 3000, personal_exemption |-> 1950,
            ss_wage_base |-> 45000, ss_rate |-> 6060, medicare_rate |-> 1450]
    @@ 1989 :> [brackets |-> <<
               <<19450, 15000>>, <<inf, 28000>> >>,
            standard_deduction |-> 3100, personal_exemption |-> 2000,
            ss_wage_base |-> 48000, ss_rate |-> 6060, medicare_rate |-> 1450]
    @@ 1990 :> [brackets |-> <<
               <<20350, 15000>>, <<49300, 28000>>, <<inf, 31000>> >>,
            standard_deduction |-> 3250, personal_exemption |-> 2050,
            ss_wage_base |-> 51300, ss_rate |-> 6200, medicare_rate |-> 1450]
    @@ 1991 :> [brackets |-> <<
               <<21450, 15000>>, <<51900, 28000>>, <<inf, 31000>> >>,
            standard_deduction |-> 3400, personal_exemption |-> 2150,
            ss_wage_base |-> 53400, ss_rate |-> 6200, medicare_rate |-> 1450]
    @@ 1992 :> [brackets |-> <<
               <<22100, 15000>>, <<53500, 28000>>, <<inf, 31000>> >>,
            standard_deduction |-> 3600, personal_exemption |-> 2300,
            ss_wage_base |-> 55500, ss_rate |-> 6200, medicare_rate |-> 1450]
    @@ 1993 :> [brackets |-> <<
               <<22750, 15000>>, <<55100, 28000>>, <<115000, 31000>>,
               <<250000, 36000>>, <<inf, 39600>> >>,
            standard_deduction |-> 3700, personal_exemption |-> 2350,
            ss_wage_base |-> 57600, ss_rate |-> 6200, medicare_rate |-> 1450]
    @@ 1994 :> [brackets |-> <<
               <<23350, 15000>>, <<56550, 28000>>, <<117950, 31000>>,
               <<256500, 36000>>, <<inf, 39600>> >>,
            standard_deduction |-> 3800, personal_exemption |-> 2450,
            ss_wage_base |-> 60600, ss_rate |-> 6200, medicare_rate |-> 1450]

\* The loop "for upper_bound, rate in brackets", from bracket i (1-based).
RECURSIVE HistoricalBracketLoop(_, _, _, _, _)
HistoricalBracketLoop(brackets, taxable_income, i, prev_threshold, tax) ==
    IF i > Len(brackets) THEN tax
    ELSE IF taxable_income <= prev_threshold THEN tax
    ELSE LET upper_bound == Dollars(brackets[i][1])
             rate == brackets[i][2]
             taxable_in_bracket == Min(taxable_income, upper_bound) - prev_threshold
         IN  HistoricalBracketLoop(brackets, taxable_income, i + 1, upper_bound,
                                   tax + MulRate(taxable_in_bracket, rate))

calculate_federal_income_tax(taxable_income, y) ==
    IF y \notin DOMAIN TAX_DATA THEN Raised("ValueError")
    ELSE HistoricalBracketLoop(TAX_DATA[y].brackets, taxable_income, 1, 0, 0)

\* A FICA that keeps the Medicare wage-base cap in 1994.
calculate_fica_capped_1994(gross_wages, y) ==
    IF y \notin DOMAIN TAX_DATA THEN Raised("ValueError")
    ELSE LET d == TAX_DATA[y]
             ss_wages == Min(gross_wages, Dollars(d.ss_wage_base))
             ss_tax == MulRate(ss_wages, d.ss_rate)
             medicare_wages == Min(gross_wages, Dollars(d.ss_wage_base))
             medicare_tax == MulRate(medicare_wages, d.medicare_rate)
         IN  <<ss_tax, medicare_tax, ss_tax + medicare_tax>>

\* Returns (social_security_tax, medicare_tax, total_fica).
calculate_fica(gross_wages, y) ==
    IF y \notin DOMAIN TAX_DATA THEN Raised("ValueError")
    ELSE LET d == TAX_DATA[y]
             ss_wages == Min(gross_wages, Dollars(d.ss_wage_base))
             ss_tax == MulRate(ss_wages, d.ss_rate)
             medicare_wages == IF y >= 1994 THEN gross_wages
                               ELSE Min(gross_wages, Dollars(d.ss_wage_base))
             medicare_tax == MulRate(medicare_wages, d.medicare_rate)
         IN  <<ss_tax, medicare_tax, ss_tax + medicare_tax>>

calculate_total_tax(gross, y) ==
    IF y \notin DOMAIN TAX_DATA THEN Raised("ValueError")
    ELSE LET d == TAX_DATA[y]
             deductions == Dollars(d.standard_deduction) + Dollars(d.personal_exemption)
             taxable_income == Max(0, gross - deductions)
             income_tax == calculate_federal_income_tax(taxable_income, y)
             fica == calculate_fica(gross, y)
             total_tax == income_tax + fica[3]
         IN  [gross_income |-> gross,
              standard_deduction |-> Dollars(d.standard_deduction),
              personal_exemption |-> Dollars(d.personal_exemption),
              taxable_income |-> taxable_income,
              income_tax |-> Round2(income_tax),
              ss_tax |-> Round2(fica[1]),
              medicare_tax |-> Round2(fica[2]),
              total_fica |-> Round2(fica[3]),
              total_tax |-> Round2(total_tax),
              effective_rate |-> IF gross > 0 THEN RoundRate4(total_tax, gross) ELSE 0]

(***************************************************************************)
(* Inputs of the tax functions.                                            *)
(***************************************************************************)
MaxFineIdx == 20
MaxCoarseIdx == 40

\* The gross income whose taxable income is exactly the threshold of
\* bracket i (1-based) of year y.
ThresholdIncome(y, i) ==
    Dollars(FEDERAL_BRACKETS[y][i][1] + STANDARD_DEDUCTION[y] + PERSONAL_EXEMPTION[y])

\* Incomes on a threshold (all multiples of 100 dollars): the second and
\* the top threshold of 1961, the second of 1988 and 2024, the third of 2001.
ThresholdIncomes ==
    {ThresholdIncome(1961, 2), ThresholdIncome(1961, Len(FEDERAL_BRACKETS[1961])),
     ThresholdIncome(1988, 2), ThresholdIncome(2001, 3), ThresholdIncome(2024, 2)}

\* Incomes in mills: a loss, zero, 500-dollar steps through the low
\* brackets and 10000-dollar steps up to the top brackets.
Incomes ==
    {Dollars(-1000), 0}
    \cup {Dollars(500 * i) : i \in 1..MaxFineIdx}
    \cup {Dollars(10000 * i) : i \in 1..MaxCoarseIdx}
    \cup ThresholdIncomes

\* The supported years, one year beyond each end, and years far outside.
Years == (MIN_TAX_YEAR - 1)..(MAX_TAX_YEAR + 1) \cup {0, 1900, 2100}

\* 0 (--no-state), the default 5%, 9% and 13% (the top of the state range
\* named in the tool's metadata), and 20%, a --state-rate at which the
\* taxes of a high 1961 income exceed the income.
StateRates == {0, DEFAULT_STATE_RATE, 9000, 13000, 20000}

(***************************************************************************)
(* Tax engine: one call of one public function.                            *)
(***************************************************************************)
InitTax ==
    /\ pc = "tax_call"
    /\ gross_income \in Incomes
    /\ year \in Years
    /\ state_rate = DEFAULT_STATE_RATE
    /\ values = <<>> /\ weights = <<>> /\ percentile = 0
    /\ ret = NotYet
    /\ df = <<>> /\ age_min = 0 /\ age_max = 0 /\ results = NotYet /\ data = NotYet
    /\ runs = <<>> /\ metadata = NotYet

CallFederalTax ==
    /\ pc = "tax_call"
    /\ pc' = "federal_done"
    /\ ret' = compute_federal_tax(gross_income, year)
    /\ UNCHANGED <<gross_income, year, state_rate, pctArgs, buildVars, data, runs, metadata>>

CallFica ==
    /\ pc = "tax_call"
    /\ pc' = "fica_done"
    /\ ret' = compute_fica(gross_income, year)
    /\ UNCHANGED <<gross_income, year, state_rate, pctArgs, buildVars, data, runs, metadata>>

CallStateTax ==
    /\ pc = "tax_call"
    /\ \E r \in StateRates :
        /\ state_rate' = r
        /\ ret' = compute_state_tax(gross_income, year, r)
    /\ pc' = "state_done"
    /\ UNCHANGED <<gross_income, year, pctArgs, buildVars, data, runs, metadata>>

CallAfterTax ==
    /\ pc = "tax_call"
    /\ \E r \in StateRates :
        /\ state_rate' = r
        /\ ret' = compute_after_tax(gross_income, year, r)
    /\ pc' = "after_tax_done"
    /\ UNCHANGED <<gross_income, year, pctArgs, buildVars, data, runs, metadata>>

CallTotalTax ==
    /\ pc = "tax_call"
    /\ pc' = "total_tax_done"
    /\ ret' = calculate_total_tax(gross_income, year)
    /\ UNCHANGED <<gross_income, year, state_rate, pctArgs, buildVars, data, runs, metadata>>

NextTax == CallFederalTax \/ CallFica \/ CallStateTax \/ CallAfterTax \/ CallTotalTax

SpecTax == InitTax /\ [][NextTax]_vars

(***************************************************************************)
(* Weighted percentile engine (process_income.py).  Values and weights are *)
(* integers; a result is an exact fraction [num, den] in lowest terms      *)
(* (den > 0), or Raised(e) for an exception e.                              *)
(***************************************************************************)
RECURSIVE GCD(_, _)
GCD(a, b) == IF b = 0 THEN a ELSE GCD(b, a % b)

Abs(x) == IF x < 0 THEN -x ELSE x

Rat(n, d) ==
    LET g == GCD(Abs(n), d) IN [num |-> n \div g, den |-> d \div g]

IsRat(r) == "num" \in DOMAIN r

RatLeq(a, b) == a.num * b.den <= b.num * a.den

\* np.argsort(values): every index order that sorts the values.  The
\* default sort kind is not stable, so the order of equal values is any.
RECURSIVE ArgSortsFrom(_, _)
ArgSortsFrom(vals, S) ==
    IF S = {} THEN {<<>>}
    ELSE LET lows == {i \in S : \A j \in S : vals[i] <= vals[j]}
         IN  UNION {{<<i>> \o rest : rest \in ArgSortsFrom(vals, S \ {i})} : i \in lows}

ArgSorts(vals) == ArgSortsFrom(vals, DOMAIN vals)

\* Sum of the first k entries.
RECURSIVE CumSum(_, _)
CumSum(s, k) == IF k = 0 THEN 0 ELSE CumSum(s, k - 1) + s[k]

\* np.cumsum(s)
RECURSIVE CumSeq(_, _, _)
CumSeq(s, k, acc) ==
    IF k > Len(s) THEN <<>> ELSE <<acc + s[k]>> \o CumSeq(s, k + 1, acc + s[k])

\* searchsorted(side='right'): the first index whose cumulative weight
\* exceeds the target.
SearchSorted_right(cum_seq, target100) ==
    CHOOSE k \in 1..Len(cum_seq) :
        /\ 100 * cum_seq[k] > target100
        /\ \A j \in 1..(k - 1) : 100 * cum_seq[j] <= target100

\* np.searchsorted(cum_wt, target, side='left') for a target that some
\* entry reaches: the first index (1-based) whose cumulative weight is
\* >= target.
SearchSorted(cum_seq, target100) ==
    CHOOSE k \in 1..Len(cum_seq) :
        /\ 100 * cum_seq[k] >= target100
        /\ \A j \in 1..(k - 1) : 100 * cum_seq[j] < target100

\* weighted_percentile with idx the result of np.argsort(values): the
\* value returned (ret), the return statement taken (exit) and the locals
\* of the interpolation.  Indices are 1-based here: cum_wt[0] is
\* cum_wt(1), i == 0 is i = 1.
weighted_percentile_steps(vals, wts, p, idx) ==
    LET n == Len(vals)
        none == [i |-> 0, w_below |-> 0, w_above |-> 0, target100 |-> 0, cum_wt |-> <<>>]
    IN
    IF \E k \in 1..n : idx[k] > Len(wts)                 \* weights[idx]
    THEN [ret |-> Raised("IndexError"), exit |-> "raise"] @@ none
    ELSE IF n = 0                                        \* cum_wt[-1]
    THEN [ret |-> Raised("IndexError"), exit |-> "raise"] @@ none
    ELSE
    LET sorted_vals == [k \in 1..n |-> vals[idx[k]]]
        sorted_wts == [k \in 1..n |-> wts[idx[k]]]
        cum_seq == CumSeq(sorted_wts, 1, 0)
        cum_wt(k) == cum_seq[k]
        total_wt == cum_wt(n)
        \* target = percentile / 100.0 * total_wt; kept as 100 * target
        target100 == p * total_wt
        early == [i |-> 0, w_below |-> 0, w_above |-> 0,
                  target100 |-> target100, cum_wt |-> cum_seq]
    IN  IF target100 <= 100 * cum_wt(1)
        THEN [ret |-> Rat(sorted_vals[1], 1), exit |-> "first"] @@ early
        ELSE IF target100 >= 100 * cum_wt(n)
        THEN [ret |-> Rat(sorted_vals[n], 1), exit |-> "last"] @@ early
        ELSE
        LET i == SearchSorted(cum_seq, target100)
        IN  IF i = 1
            THEN [ret |-> Rat(sorted_vals[1], 1), exit |-> "i == 0"] @@ early
            ELSE
            LET w_below == cum_wt(i - 1)
                w_above == cum_wt(i)
                locals == [i |-> i, w_below |-> w_below, w_above |-> w_above,
                           target100 |-> target100, cum_wt |-> cum_seq]
            IN  IF w_above = w_below
                THEN [ret |-> Rat(sorted_vals[i], 1), exit |-> "w_above == w_below"]
                        @@ locals
                ELSE
                \* fraction = (target - w_below) / (w_above - w_below)
                [ret |-> Rat(sorted_vals[i - 1] * 100 * (w_above - w_below)
                                + (target100 - 100 * w_below)
                                    * (sorted_vals[i] - sorted_vals[i - 1]),
                             100 * (w_above - w_below)),
                 exit |-> "interpolated"] @@ locals

\* A percentile taken over the observations in their given order.
weighted_percentile_unsorted(vals, wts, p, idx) ==
    weighted_percentile_steps(vals, wts, p, [k \in 1..Len(vals) |-> k]).ret

\* The value weighted_percentile returns (or the exception it raises).
weighted_percentile(vals, wts, p, idx) ==
    weighted_percentile_steps(vals, wts, p, idx).ret

RECURSIVE SumProd(_, _, _)
SumProd(a, b, k) == IF k = 0 THEN 0 ELSE SumProd(a, b, k - 1) + a[k] * b[k]

\* A mean computed as np.sum(values * weights) / np.sum(weights): 0/0 is
\* NaN, not an exception.
weighted_mean_unchecked(vals, wts) ==
    IF Len(vals) # Len(wts) THEN Raised("ValueError")
    ELSE IF CumSum(wts, Len(wts)) = 0 THEN [nan |-> TRUE]
    ELSE Rat(SumProd(vals, wts, Len(vals)), CumSum(wts, Len(wts)))

\* np.average(values, weights=weights)
weighted_mean(vals, wts) ==
    IF Len(vals) # Len(wts) THEN Raised("TypeError")
    ELSE IF CumSum(wts, Len(wts)) = 0 THEN Raised("ZeroDivisionError")
    ELSE Rat(SumProd(vals, wts, Len(vals)), CumSum(wts, Len(wts)))

(***************************************************************************)
(* Inputs of the percentile engine.                                        *)
(***************************************************************************)
MaxLen == 3
MaxMismatchLen == 2

ValueDomain == {10, 20, 30, 40}
WeightDomain == {0, 1, 2}
PercentileDomain == {0, 10, 25, 50, 75, 99, 100}

\* Sequences of equal length up to MaxLen, short ones of unequal length,
\* and the four-observation cell with unit weights.
InitPct ==
    /\ pc = "pct_call"
    /\ \/ \E n \in 0..MaxLen :
            \E m \in {n} \cup (IF n <= MaxMismatchLen THEN 0..MaxMismatchLen ELSE {}) :
                /\ values \in [1..n -> ValueDomain]
                /\ weights \in [1..m -> WeightDomain]
       \/ /\ values = <<10, 20, 30, 40>>
          /\ weights = <<1, 1, 1, 1>>
    /\ percentile \in PercentileDomain
    /\ gross_income = 0 /\ year = 0 /\ state_rate = 0
    /\ ret = NotYet
    /\ df = <<>> /\ age_min = 0 /\ age_max = 0 /\ results = NotYet /\ data = NotYet
    /\ runs = <<>> /\ metadata = NotYet

CallWeightedPercentile ==
    /\ pc = "pct_call"
    /\ \E idx \in ArgSorts(values) :
        ret' = weighted_percentile(values, weights, percentile, idx)
    /\ pc' = "percentile_done"
    /\ UNCHANGED <<taxArgs, pctArgs, buildVars, data, runs, metadata>>

CallWeightedMean ==
    /\ pc = "pct_call"
    /\ ret' = weighted_mean(values, weights)
    /\ pc' = "mean_done"
    /\ UNCHANGED <<taxArgs, pctArgs, buildVars, data, runs, metadata>>

NextPct == CallWeightedPercentile \/ CallWeightedMean

SpecPct == InitPct /\ [][NextPct]_vars

(***************************************************************************)
(* Distribution builder (process_income.py).  A row of df is a record      *)
(* [YEAR, AGE, INCTOT, ASECWT]: INCTOT in dollars, ASECWT in hundredths.   *)
(* The table maps income year -> age -> stats; mean and pNN in mills.      *)
(***************************************************************************)
PERCENTILES == <<1, 5, 10, 25, 50, 75, 90, 95, 99>>

PField(p) ==
    CASE p = 1 -> "p1" [] p = 5 -> "p5" [] p = 10 -> "p10" [] p = 25 -> "p25"
      [] p = 50 -> "p50" [] p = 75 -> "p75" [] p = 90 -> "p90" [] p = 95 -> "p95"
      [] p = 99 -> "p99"

detect_income_year(survey_year) == survey_year - 1

\* round(float(x), 2) of a non-negative fraction of dollars, in mills:
\* nearest cent, ties to even.
RoundRat2(r) ==
    LET whole == r.num \div r.den
        rem == r.num % r.den
        c == whole * 100 + (rem * 100) \div r.den
        r2 == (rem * 100) % r.den
        up == IF 2 * r2 > r.den \/ (2 * r2 = r.den /\ c % 2 = 1) THEN c + 1 ELSE c
    IN  up * 10

\* The stats dict of one cell, given the argsort of its values.
CellStats(vals, wts, idx) ==
    [f \in {"n_samples", "est_workforce", "mean"} \cup {PField(PERCENTILES[k]) : k \in 1..Len(PERCENTILES)} |->
        CASE f = "n_samples" -> Len(vals)
          [] f = "est_workforce" -> CumSum(wts, Len(wts)) \div 100   \* int(np.sum(weights))
          [] f = "mean" -> RoundRat2(weighted_mean(vals, wts))
          [] OTHER ->
               LET p == CHOOSE q \in {PERCENTILES[k] : k \in 1..Len(PERCENTILES)} : PField(q) = f
               IN  RoundRat2(weighted_percentile(vals, wts, p, idx))]

\* A builder whose second sample-size gate (after the weight filter) is gone.
CellEmitted_no_second_gate(age_df) == ~(Len(age_df) < 25)

\* Whether the cell of age_df is emitted: both "continue" gates are passed.
CellEmitted(age_df) ==
    LET valid == SelectSeq(age_df, LAMBDA row : row.ASECWT > 0)
    IN  ~(Len(age_df) < 25) /\ ~(Len(valid) < 25)

\* A cell computed without the "weights > 0" filter.
CellOutcomes_unfiltered(age_df) ==
    LET vals == [k \in 1..Len(age_df) |-> age_df[k].INCTOT]
        wts == [k \in 1..Len(age_df) |-> age_df[k].ASECWT]
    IN  {CellStats(vals, wts, idx) : idx \in ArgSorts(vals)}

\* Every stats dict the cell of age_df can get (one per argsort outcome).
CellOutcomes(age_df) ==
    LET valid == SelectSeq(age_df, LAMBDA row : row.ASECWT > 0)
        vals == [k \in 1..Len(valid) |-> valid[k].INCTOT]
        wts == [k \in 1..Len(valid) |-> valid[k].ASECWT]
    IN  {CellStats(vals, wts, idx) : idx \in ArgSorts(vals)}

\* year_data of one survey year: the emitted ages, each with one outcome.
YearOutcomes(frame, survey_year, amin, amax) ==
    LET year_df == SelectSeq(frame, LAMBDA row : row.YEAR = survey_year)
        age_df(age) == SelectSeq(year_df, LAMBDA row : row.AGE = age)
        emitted == {age \in amin..amax : CellEmitted(age_df(age))}
        any == UNION {CellOutcomes(age_df(age)) : age \in emitted}
    IN  {yd \in [emitted -> any] : \A age \in emitted : yd[age] \in CellOutcomes(age_df(age))}

\* Every table compute_percentiles(df, age_min, age_max) can return.
compute_percentiles(frame, amin, amax) ==
    LET years == {frame[k].YEAR : k \in DOMAIN frame}
        income_years == {detect_income_year(y) : y \in years}
        any == UNION {YearOutcomes(frame, y, amin, amax) : y \in years}
    IN  {res \in [income_years -> any] :
            \A y \in years :
                res[detect_income_year(y)] \in YearOutcomes(frame, y, amin, amax)}

(***************************************************************************)
(* Inputs of the builder: frames whose cells lie around the 25-row gate.   *)
(***************************************************************************)
\* rows with positive weight per cell: 25 - GateSpread .. 25 + GateSpread
GateSpread == 1
\* rows with zero or negative weight per cell: 0 .. MaxNonPositive
MaxNonPositive == 2

\* The rows of one cell: non_pos rows of weight 0 or -0.50 first, then pos
\* rows of positive weight.  Shape 1: distinct incomes in falling order,
\* weights 1.00 / 1.50.  Shape 2: rising incomes, the second and third equal,
\* weights 0.50 / 1.00 / 1.50.
CellRows(survey_year, age, pos, non_pos, shape) ==
    [k \in 1..(non_pos + pos) |->
        IF k <= non_pos
        THEN [YEAR |-> survey_year, AGE |-> age, INCTOT |-> 30000 + 1000 * k,
              ASECWT |-> IF k = 1 THEN 0 ELSE -50]
        ELSE LET j == k - non_pos
             IN  IF shape = 1
                 THEN [YEAR |-> survey_year, AGE |-> age,
                       INCTOT |-> 2000 * (pos + 1 - j) + 100 * age,
                       ASECWT |-> IF j % 2 = 0 THEN 100 ELSE 150]
                 ELSE [YEAR |-> survey_year, AGE |-> age,
                       INCTOT |-> IF j = 1 THEN 1500 ELSE IF j <= 3 THEN 3000 ELSE 1500 * (j - 1),
                       ASECWT |-> 50 * (1 + (j % 3))]]

\* Rows that never form a cell: an age outside the range, and an earlier
\* survey year with a handful of rows.
ExtraRows ==
    <<[YEAR |-> 2025, AGE |-> 18, INCTOT |-> 40000, ASECWT |-> 100],
      [YEAR |-> 2024, AGE |-> 16, INCTOT |-> 12000, ASECWT |-> 100],
      [YEAR |-> 2024, AGE |-> 16, INCTOT |-> 15000, ASECWT |-> 0],
      [YEAR |-> 2024, AGE |-> 17, INCTOT |-> 18000, ASECWT |-> 150]>>

InitBuild ==
    /\ pc = "build_call"
    /\ age_min = 16 /\ age_max = 17
    /\ \E pa, pb \in (25 - GateSpread)..(25 + GateSpread) :
        \E na, nb \in 0..MaxNonPositive :
            \E sa, sb \in {1, 2} :
                df = CellRows(2025, 16, pa, na, sa) \o ExtraRows
                        \o CellRows(2025, 17, pb, nb, sb)
    /\ results = NotYet /\ data = NotYet
    /\ runs = <<>> /\ metadata = NotYet
    /\ gross_income = 0 /\ year = 0 /\ state_rate = 0
    /\ values = <<>> /\ weights = <<>> /\ percentile = 0
    /\ ret = NotYet

ComputePercentiles ==
    /\ pc = "build_call"
    /\ results' \in compute_percentiles(df, age_min, age_max)
    /\ pc' = "build_done"
    /\ UNCHANGED <<taxArgs, pctArgs, ret, df, age_min, age_max, data, runs, metadata>>

NextBuild == ComputePercentiles

SpecBuild == InitBuild /\ [][NextBuild]_vars

(***************************************************************************)
(* After-tax annotator (add_after_tax.py).  The table maps year -> age ->  *)
(* record; a record is a function from field names to numbers (amounts in  *)
(* mills).  The JSON keys are the decimal strings of the years and ages;   *)
(* they are kept as the integers int(year_str) reads back.                 *)
(***************************************************************************)
INCOME_FIELDS == <<"mean", "p1", "p5", "p10", "p25", "p50", "p75", "p90", "p95", "p99">>

\* An annotator that taxes the stored after-tax value when there is one.
AnnotateRecord_compounding(record, y, rate) ==
    LET present == {f \in {INCOME_FIELDS[k] : k \in 1..Len(INCOME_FIELDS)} :
                        f \in DOMAIN record /\ record[f] # None}
        at_fields ==
            [name \in {"at_" \o f : f \in present} |->
                LET f == CHOOSE g \in present : "at_" \o g = name
                    gross == IF name \in DOMAIN record THEN record[name] ELSE record[f]
                IN  Round2(compute_after_tax(gross, y, rate).after_tax)]
        at_rate ==
            IF "p50" \in DOMAIN record /\ record["p50"] # None /\ record["p50"] > 0
            THEN "at_effective_rate_p50"
                    :> compute_after_tax(record["p50"], y, rate).detail.effective_rate
            ELSE <<>>
    IN  at_rate @@ at_fields @@ record

\* An annotator that leaves an after-tax field alone once it exists.
AnnotateRecord_keep_existing(record, y, rate) ==
    LET present == {f \in {INCOME_FIELDS[k] : k \in 1..Len(INCOME_FIELDS)} :
                        f \in DOMAIN record /\ record[f] # None}
        at_fields ==
            [name \in {"at_" \o f : f \in present} |->
                LET f == CHOOSE g \in present : "at_" \o g = name
                IN  Round2(compute_after_tax(record[f], y, rate).after_tax)]
        at_rate ==
            IF "p50" \in DOMAIN record /\ record["p50"] # None /\ record["p50"] > 0
            THEN "at_effective_rate_p50"
                    :> compute_after_tax(record["p50"], y, rate).detail.effective_rate
            ELSE <<>>
    IN  record @@ at_rate @@ at_fields

\* An annotator that tests "if record.get(field)": a gross value of 0 is
\* skipped like a null.
AnnotateRecord_truthy(record, y, rate) ==
    LET present == {f \in {INCOME_FIELDS[k] : k \in 1..Len(INCOME_FIELDS)} :
                        f \in DOMAIN record /\ record[f] # None /\ record[f] # 0}
        at_fields ==
            [name \in {"at_" \o f : f \in present} |->
                LET f == CHOOSE g \in present : "at_" \o g = name
                IN  Round2(compute_after_tax(record[f], y, rate).after_tax)]
        at_rate ==
            IF "p50" \in DOMAIN record /\ record["p50"] # None /\ record["p50"] > 0
            THEN "at_effective_rate_p50"
                    :> compute_after_tax(record["p50"], y, rate).detail.effective_rate
            ELSE <<>>
    IN  at_rate @@ at_fields @@ record

\* The record after the body of "for age_str, record in age_data.items()".
AnnotateRecord(record, y, rate) ==
    LET present == {f \in {INCOME_FIELDS[k] : k \in 1..Len(INCOME_FIELDS)} :
                        f \in DOMAIN record /\ record[f] # None}
        at_fields ==
            [name \in {"at_" \o f : f \in present} |->
                LET f == CHOOSE g \in present : "at_" \o g = name
                IN  Round2(compute_after_tax(record[f], y, rate).after_tax)]
        at_rate ==
            IF "p50" \in DOMAIN record /\ record["p50"] # None /\ record["p50"] > 0
            THEN "at_effective_rate_p50"
                    :> compute_after_tax(record["p50"], y, rate).detail.effective_rate
            ELSE <<>>
    IN  at_rate @@ at_fields @@ record

\* data['data'] after add_after_tax_to_data(data, state_rate).
add_after_tax_to_data(d, rate) ==
    [y \in DOMAIN d |-> [age \in DOMAIN d[y] |-> AnnotateRecord(d[y][age], y, rate)]]

(***************************************************************************)
(* Inputs of the annotator: tables as a JSON file can hold them.           *)
(***************************************************************************)
\* Gross fields rising from base by step dollars per percentile rank.
GrossRecord(base, step, holes) ==
    LET full == [f \in {INCOME_FIELDS[k] : k \in 1..Len(INCOME_FIELDS)} |->
                    IF f = "mean" THEN Dollars(base + 5 * step)
                    ELSE Dollars(base + step * ((CHOOSE k \in 2..Len(INCOME_FIELDS) :
                                                    INCOME_FIELDS[k] = f) - 2))]
        counts == [n_samples |-> 30, est_workforce |-> 1000]
    IN  CASE holes = "full" -> full @@ counts
          [] holes = "null_p99" -> ("p99" :> None) @@ full @@ counts
          [] holes = "no_mean" -> [f \in DOMAIN full \ {"mean"} |-> full[f]] @@ counts

GrossRecords ==
    {GrossRecord(b, s, h) : b \in {0, 5000, 20000, 100000},
                            s \in {0, 2500, 12500, 35000},
                            h \in {"full", "null_p99", "no_mean"}}

TableYears == {1961, 1988, 2013}

\* Runs of the annotator on the same table.
MaxRuns == 2

InitAnnot ==
    /\ pc = "annot_call"
    /\ \E y \in TableYears : \E ra \in GrossRecords :
        LET hb == IF "mean" \notin DOMAIN ra THEN "no_mean"
                  ELSE IF ra["p99"] = None THEN "null_p99" ELSE "full"
        IN  data = (y :> (16 :> ra @@ 40 :> GrossRecord(5000, 12500, hb)))
                @@ (2024 :> (29 :> GrossRecord(20000, 12500, "full")))
    /\ state_rate = DEFAULT_STATE_RATE
    /\ gross_income = 0 /\ year = 0
    /\ values = <<>> /\ weights = <<>> /\ percentile = 0
    /\ ret = NotYet
    /\ df = <<>> /\ age_min = 0 /\ age_max = 0 /\ results = NotYet
    /\ runs = <<>> /\ metadata = NotYet

\* One run of add_after_tax_to_data on the table, first or repeated.
AddAfterTaxToData ==
    /\ pc \in {"annot_call", "annot_done"}
    /\ Len(runs) < MaxRuns
    /\ \E r \in StateRates :
        /\ state_rate' = r
        /\ data' = add_after_tax_to_data(data, r)
        /\ runs' = Append(runs, r)
    /\ pc' = "annot_done"
    /\ UNCHANGED <<gross_income, year, pctArgs, ret, buildVars, metadata>>

NextAnnot == AddAfterTaxToData

SpecAnnot == InitAnnot /\ [][NextAnnot]_vars

(***************************************************************************)
(* 2025 projection (project_2025.py).  The dict passed to project() is     *)
(* <<data, metadata>>: data is data['data'] (year -> age -> record) and    *)
(* metadata is data['metadata'].  Growth factors are in 1/1000.            *)
(***************************************************************************)
GROWTH_FACTORS ==
    << <<16, 24, 1055>>, <<25, 34, 1045>>, <<35, 44, 1042>>,
       <<45, 54, 1038>>, <<55, 64, 1035>>, <<65, 75, 1033>> >>

get_growth_factor(age) ==
    IF \E k \in 1..Len(GROWTH_FACTORS) :
            GROWTH_FACTORS[k][1] <= age /\ age <= GROWTH_FACTORS[k][2]
    THEN GROWTH_FACTORS[CHOOSE k \in 1..Len(GROWTH_FACTORS) :
                GROWTH_FACTORS[k][1] <= age /\ age <= GROWTH_FACTORS[k][2]][3]
    ELSE IF age < 16 THEN GROWTH_FACTORS[1][3]
    ELSE GROWTH_FACTORS[6][3]

\* round(x * factor, 2) for an amount x >= 0 in mills and a factor
\* >= 1000: to the nearest cent, ties to even.
ProjectAmount(x, factor) ==
    LET g == factor - 1000
        xd == x \div 1000
        xm == x % 1000
        whole == x + xd * g + (xm * g) \div 1000      \* mills
        frac == (xm * g) % 1000                       \* 1/1000 mill
        c == whole \div 10
        rem == (whole % 10) * 1000 + frac
        up == IF rem > 5000 \/ (rem = 5000 /\ c % 2 = 1) THEN c + 1 ELSE c
    IN  up * 10

\* A projected record that starts as a copy of the 2024 record.
ProjectRecord_carry_over(record, age) ==
    LET factor == get_growth_factor(age)
        present == {f \in {INCOME_FIELDS[k] : k \in 1..Len(INCOME_FIELDS)} :
                        f \in DOMAIN record /\ record[f] # None}
        fields == [f \in present |-> ProjectAmount(record[f], factor)]
    IN  fields @@ [n_samples |-> 0,
                   est_workforce |-> IF "est_workforce" \in DOMAIN record
                                     THEN record["est_workforce"] ELSE 0,
                   estimated |-> TRUE]
               @@ record

\* A projected record without the 'estimated' flag.
ProjectRecord_unflagged(record, age) ==
    LET factor == get_growth_factor(age)
        present == {f \in {INCOME_FIELDS[k] : k \in 1..Len(INCOME_FIELDS)} :
                        f \in DOMAIN record /\ record[f] # None}
        fields == [f \in present |-> ProjectAmount(record[f], factor)]
    IN  fields @@ [n_samples |-> 0,
                   est_workforce |-> IF "est_workforce" \in DOMAIN record
                                     THEN record["est_workforce"] ELSE 0]

\* new_record of the loop "for age_str, record in base_year.items()".
ProjectRecord(record, age) ==
    LET factor == get_growth_factor(age)
        present == {f \in {INCOME_FIELDS[k] : k \in 1..Len(INCOME_FIELDS)} :
                        f \in DOMAIN record /\ record[f] # None}
        fields == [f \in present |-> ProjectAmount(record[f], factor)]
    IN  fields @@ [n_samples |-> 0,
                   est_workforce |-> IF "est_workforce" \in DOMAIN record
                                     THEN record["est_workforce"] ELSE 0,
                   estimated |-> TRUE]

\* The entry project() stores under metadata['estimated_years']['2025'].
EstimateNote ==
    [method |-> "Projected from 2024 ASEC using age-differentiated BLS wage growth factors",
     base_year |-> 2024,
     growth_factors |-> GROWTH_FACTORS,
     sources |-> <<"BLS Usual Weekly Earnings Q3 2025 vs Q3 2024: +4.2% overall YoY",
                   "BLS Employment Cost Index Dec 2025: +3.3% wages & salaries YoY",
                   "Age-specific differentials from CPS quarterly earnings by age group">>,
     note |-> "This is an estimate, not observed data. True 2025 income data will be available from the 2026 CPS ASEC (~September 2026)."]

\* The dict after project(data) has run to its return statement
\* (2024 is in d): the same dict that was passed in, with the new entries.
project(d, md) ==
    LET projected == [age \in DOMAIN d[2024] |-> ProjectRecord(d[2024][age], age)]
        estimated_years ==
            IF "estimated_years" \in DOMAIN md THEN md["estimated_years"] ELSE <<>>
    IN  [data |-> (2025 :> projected) @@ d,
         metadata |-> ("estimated_years" :> ((2025 :> EstimateNote) @@ estimated_years))
                          @@ md]

(***************************************************************************)
(* Inputs of the projection.                                               *)
(***************************************************************************)
\* Ages below, inside and above the growth-factor groups.
ProjectAges == {15, 24, 25, 50, 80}

\* A cell as the builder emits it, with or without est_workforce.  The
\* amounts are even numbers of dollars, so that no projected amount falls
\* on a half cent (where the binary product decides the rounding).
ProjectCell(age, holes, counted) ==
    LET r == GrossRecord(200 * age, 12346, holes)
    IN  IF counted THEN r ELSE [f \in DOMAIN r \ {"est_workforce"} |-> r[f]]

InitProject ==
    /\ pc = "project_call"
    /\ \E A \in SUBSET ProjectAges : \E h \in {"full", "null_p99", "no_mean"} :
        \E counted \in BOOLEAN : \E has2025 \in BOOLEAN :
            LET base == 2023 :> (29 :> GrossRecord(20000, 12500, "full"))
                y2024 == IF A = {} THEN <<>>
                         ELSE 2024 :> [age \in A |-> ProjectCell(age, h, counted)]
                y2025 == IF has2025
                         THEN 2025 :> (29 :> GrossRecord(1000, 100, "full"))
                         ELSE <<>>
            IN  data = y2025 @@ y2024 @@ base
    /\ metadata \in {[source |-> "IPUMS CPS"],
                      [source |-> "IPUMS CPS",
                       estimated_years |-> (2023 :> [base_year |-> 2022])]}
    /\ ret = NotYet
    /\ gross_income = 0 /\ year = 0 /\ state_rate = 0
    /\ values = <<>> /\ weights = <<>> /\ percentile = 0
    /\ df = <<>> /\ age_min = 0 /\ age_max = 0 /\ results = NotYet
    /\ runs = <<>>

\* project(data) with '2024' in data['data']: the caller's dict is updated
\* and returned.
Project ==
    /\ pc = "project_call"
    /\ 2024 \in DOMAIN data
    /\ LET out == project(data, metadata)
       IN  /\ data' = out.data
           /\ metadata' = out.metadata
           /\ ret' = out
    /\ pc' = "project_done"
    /\ UNCHANGED <<taxArgs, pctArgs, buildVars, runs>>

\* project(data) without '2024': sys.exit(1).
ProjectExit ==
    /\ pc = "project_call"
    /\ 2024 \notin DOMAIN data
    /\ ret' = Raised("SystemExit")
    /\ pc' = "project_exit"
    /\ UNCHANGED <<taxArgs, pctArgs, buildVars, data, runs, metadata>>

NextProject == Project \/ ProjectExit

SpecProject == InitProject /\ [][NextProject]_vars

(***************************************************************************)
(* The pipeline: process_income.py builds the table, then project_2025.py  *)
(* and add_after_tax.py are run on it, any number of times in any order.   *)
(* runs is the log of the runs made on the table, one record per run.      *)
(***************************************************************************)
\* build_output(results): the table under 'data' (its integer keys turned
\* into strings, which the later scripts turn back with int()) and a new
\* 'metadata' dict, of which two entries are kept here.
build_output(res) ==
    [data |-> res,
     metadata |-> [source |-> "Census Bureau CPS ASEC via IPUMS-CPS",
                   percentiles_computed |-> PERCENTILES]]

\* Runs of project and add_after_tax_to_data on one table.
MaxSteps == 3

\* The rates of a pipeline run: --no-state and the default.
PipeRates == {0, DEFAULT_STATE_RATE}

\* A survey of year sy (income year sy - 1) with one cell of 25 weighted
\* rows and one cell around the gate, and possibly the 2026 survey, whose
\* income year is 2025.
InitPipe ==
    /\ pc = "pipe_build"
    /\ age_min = 16 /\ age_max = 17
    /\ \E sy \in {2024, 2025} : \E later \in BOOLEAN : \E shape \in {1, 2} :
        \E pb \in (25 - GateSpread)..(25 + GateSpread) :
            df = CellRows(sy, 16, 25, 1, shape) \o CellRows(sy, 17, pb, 0, 1)
                    \o (IF later THEN CellRows(2026, 16, 25, 0, 1) ELSE <<>>)
    /\ results = NotYet /\ data = NotYet
    /\ runs = <<>> /\ metadata = NotYet
    /\ gross_income = 0 /\ year = 0 /\ state_rate = 0
    /\ values = <<>> /\ weights = <<>> /\ percentile = 0
    /\ ret = NotYet

\* process_income.py: compute_percentiles, then build_output.
PipeBuild ==
    /\ pc = "pipe_build"
    /\ \E res \in compute_percentiles(df, age_min, age_max) :
        /\ results' = res
        /\ data' = build_output(res).data
        /\ metadata' = build_output(res).metadata
    /\ pc' = "pipe_built"
    /\ UNCHANGED <<taxArgs, pctArgs, ret, df, age_min, age_max, runs>>

\* project_2025.py on a table that has the year 2024.
PipeProject ==
    /\ pc # "pipe_build"
    /\ Len(runs) < MaxSteps
    /\ 2024 \in DOMAIN data
    /\ LET out == project(data, metadata)
       IN  /\ data' = out.data
           /\ metadata' = out.metadata
           /\ ret' = out
    /\ runs' = Append(runs, [op |-> "project"])
    /\ pc' = "pipe_projected"
    /\ UNCHANGED <<taxArgs, pctArgs, buildVars>>

\* project_2025.py on a table without the year 2024: sys.exit(1), nothing
\* is written.
PipeProjectExit ==
    /\ pc # "pipe_build"
    /\ 2024 \notin DOMAIN data
    /\ ret' = Raised("SystemExit")
    /\ pc' = "pipe_exit"
    /\ UNCHANGED <<taxArgs, pctArgs, buildVars, data, runs, metadata>>

\* add_after_tax.py on the table.
PipeAnnotate ==
    /\ pc # "pipe_build"
    /\ Len(runs) < MaxSteps
    /\ \E r \in PipeRates :
        /\ state_rate' = r
        /\ data' = add_after_tax_to_data(data, r)
        /\ runs' = Append(runs, [op |-> "add_after_tax", rate |-> r])
    /\ pc' = "pipe_annotated"
    /\ UNCHANGED <<gross_income, year, pctArgs, ret, buildVars, metadata>>

NextPipe == PipeBuild \/ PipeProject \/ PipeProjectExit \/ PipeAnnotate

SpecPipe == InitPipe /\ [][NextPipe]_vars

(***************************************************************************)
(* Properties of the tax engine (checked under SpecTax).                   *)
(***************************************************************************)

\* C1: for every year and every state_rate the net income returned by
\* compute_after_tax is non-decreasing in gross_income: for all incomes
\* a <= b, net(a) <= net(b).
C1_AfterTaxMonotone ==
    pc = "after_tax_done" =>
        \A a \in Incomes :
            a <= gross_income =>
                compute_after_tax(a, year, state_rate).after_tax <= ret.after_tax

\* C7 as stated: compute_federal_tax(50000, 2024) equals 4030.00.
C7_FederalTax4030 ==
    (pc = "federal_done" /\ gross_income = Dollars(50000) /\ year = 2024)
        => ret = 4030000

\* C7: compute_federal_tax(50000, 2024) equals 4016.00, which is 10% of
\* 11600 plus 12% of (35400 - 11600), the taxable income being
\* 50000 - 14600 = 35400.
C7_FederalTax4016 ==
    (pc = "federal_done" /\ gross_income = Dollars(50000) /\ year = 2024)
        => /\ ret = 4016000
           /\ ret = (Dollars(11600) \div 10) + (Dollars(35400 - 11600) * 12) \div 100
           /\ gross_income - Dollars(STANDARD_DEDUCTION[2024])
                           - Dollars(PERSONAL_EXEMPTION[2024]) = Dollars(35400)

C7_Witness ==
    pc = "federal_done" /\ gross_income = Dollars(50000) /\ year = 2024 /\ ret > 0

\* C8 as stated: compute_fica(50000, 2024) equals 3875.00.
C8_Fica3875 ==
    (pc = "fica_done" /\ gross_income = Dollars(50000) /\ year = 2024)
        => ret = 3875000

\* C8: compute_fica(50000, 2024) equals 3825.00, computed as 50000 x 0.062
\* (Social Security, 3100.00) plus 50000 x 0.0145 (Medicare, 725.00).
C8_Fica3825 ==
    (pc = "fica_done" /\ gross_income = Dollars(50000) /\ year = 2024)
        => /\ ret = 3825000
           /\ ret = (50000 * 62) + (50000 * 145) \div 10

C8_Witness ==
    pc = "fica_done" /\ gross_income = Dollars(50000) /\ year = 2024 /\ ret > 0

\* C9: for every year >= 2013 and every gross_income > 200000, compute_fica
\* exceeds (Social-Security component + medicare_rate x gross_income) by
\* exactly (gross_income - 200000) x 0.009, with no wage-base cap;
\* compute_fica(250000, 2024) contains a surtax of 450.00; for year < 2013
\* or gross_income <= 200000 the surtax is 0.
C9_AdditionalMedicare ==
    (pc = "fica_done" /\ gross_income > 0) =>
        LET yr == ClampYear(year)
            base == Dollars(SS_WAGE_BASE[yr])
            ss == MulRate(Min(gross_income, base), SS_RATE[yr])
            med_full == MulRate(gross_income, MEDICARE_RATE[yr])
            med == IF yr >= 1994 THEN med_full
                   ELSE MulRate(Min(gross_income, base), MEDICARE_RATE[yr])
        IN  /\ (year >= 2013 /\ gross_income > Dollars(200000))
                   => ret - (ss + med_full)
                          = ((gross_income - Dollars(200000)) * 9) \div 1000
            /\ (year = 2024 /\ gross_income = Dollars(250000))
                   => ret - (ss + med_full) = 450000
            /\ (year < 2013 \/ gross_income <= Dollars(200000))
                   => ret - (ss + med) = 0

C9_Witness ==
    /\ pc = "fica_done" /\ gross_income = Dollars(250000) /\ year = 2024
    /\ gross_income > Dollars(SS_WAGE_BASE[2024])
    /\ ret = 14528200

\* C10: for every supported year Y (1961..2025), compute_federal_tax(I, Y)
\* and compute_fica(I, Y) are each >= 0 and non-decreasing in the income I
\* (for all 0 < a <= b: f(a, Y) <= f(b, Y)).
C10_TaxesNonNegativeMonotone ==
    (year \in 1961..2025 /\ gross_income > 0) =>
        /\ pc = "federal_done" =>
              /\ ret >= 0
              /\ \A a \in Incomes :
                    (0 < a /\ a <= gross_income)
                        => compute_federal_tax(a, year) <= ret
        /\ pc = "fica_done" =>
              /\ ret >= 0
              /\ \A a \in Incomes :
                    (0 < a /\ a <= gross_income) => compute_fica(a, year) <= ret

\* 1988 (two brackets, 15% and 28%), an income in the top bracket.
C10_Witness ==
    /\ pc = "federal_done" /\ year = 1988 /\ gross_income = Dollars(400000)
    /\ ret > compute_federal_tax(Dollars(100000), 1988)
    /\ compute_federal_tax(Dollars(100000), 1988) > 0

\* C11: for every income and every year Y below 1961, compute_federal_tax,
\* compute_fica and compute_state_tax return exactly what they return for
\* year 1961, and for every Y above 2025 exactly what they return for 2025;
\* an out-of-range year never produces an error (a number is returned).
C11_YearClamping ==
    LET yc == IF year < 1961 THEN 1961 ELSE IF year > 2025 THEN 2025 ELSE year
    IN  /\ pc = "federal_done" =>
              (ret \in Int /\ ret = compute_federal_tax(gross_income, yc))
        /\ pc = "fica_done" =>
              (ret \in Int /\ ret = compute_fica(gross_income, yc))
        /\ pc = "state_done" =>
              (ret \in Int /\ ret = compute_state_tax(gross_income, yc, state_rate))

\* compute_fica(50000, 1900) is 144.00 (3% of the 1961 wage base of 4800),
\* the 1961 value; the 1962 value is 150.00.
C11_Witness ==
    /\ pc = "fica_done" /\ year = 1900 /\ gross_income = Dollars(50000)
    /\ ret = 144000
    /\ compute_fica(Dollars(50000), 1961) = 144000

\* C12 as stated: for every gross_income (positive, zero or negative),
\* every year and every state_rate, the net income returned by
\* compute_after_tax equals max(0, gross_income - federal_tax - fica -
\* state_tax) and is never negative.
C12_NetIsFlooredDifference ==
    pc = "after_tax_done" =>
        /\ ret.after_tax
              = Max(0, gross_income - compute_federal_tax(gross_income, year)
                                    - compute_fica(gross_income, year)
                                    - compute_state_tax(gross_income, year, state_rate))
        /\ ret.after_tax >= 0

\* C12: for every gross_income > 0 the net income returned by
\* compute_after_tax equals max(0, gross_income - federal_tax - fica -
\* state_tax) and is never negative; for gross_income <= 0 it is
\* gross_income itself (negative for a loss) and every tax component is 0.
C12_NetFlooredForPositiveGross ==
    pc = "after_tax_done" =>
        IF gross_income > 0
        THEN /\ ret.after_tax
                   = Max(0, gross_income - compute_federal_tax(gross_income, year)
                                         - compute_fica(gross_income, year)
                                         - compute_state_tax(gross_income, year, state_rate))
             /\ ret.after_tax >= 0
        ELSE /\ ret.after_tax = gross_income
             /\ ret.detail.federal = 0 /\ ret.detail.fica = 0
             /\ ret.detail.state = 0 /\ ret.detail.total = 0

\* The floor acts: in 1961 at a 20% state rate the taxes on 250000 are
\* 250808.00.
C12_Witness ==
    /\ pc = "after_tax_done" /\ year = 1961 /\ state_rate = 20000
    /\ gross_income = Dollars(250000)
    /\ ret.detail.total = 250808000
    /\ ret.after_tax = 0

\* C13: the tax breakdown returned by compute_after_tax always carries an
\* effective rate: total_tax / gross_income (to 4 decimals) when
\* gross_income > 0, and 0 when gross_income <= 0.
C13_EffectiveRateAlwaysPresent ==
    pc = "after_tax_done" =>
        /\ "effective_rate" \in DOMAIN ret.detail
        /\ IF gross_income > 0
           THEN ret.detail.effective_rate
                    = RoundRate4(compute_federal_tax(gross_income, year)
                                   + compute_fica(gross_income, year)
                                   + compute_state_tax(gross_income, year, state_rate),
                                 gross_income)
           ELSE ret.detail.effective_rate = 0

\* C19: in compute_fica, for every year < 1994 the Medicare component is
\* medicare_rate(year) x min(gross_income, ss_wage_base(year)), so
\* compute_fica is constant for all gross_income >= ss_wage_base(year); for
\* every year >= 1994 the Medicare component is medicare_rate(year) x
\* gross_income with no cap (the 2013+ surtax on income over 200000 being
\* counted apart); the Social-Security component is always
\* ss_rate(year) x min(gross_income, ss_wage_base(year)).
C19_MedicareWageBaseRegime ==
    (pc = "fica_done" /\ gross_income > 0) =>
        LET yr == ClampYear(year)
            base == Dollars(SS_WAGE_BASE[yr])
            ss == MulRate(Min(gross_income, base), SS_RATE[yr])
            surtax == IF year >= 2013 /\ gross_income > Dollars(200000)
                      THEN ((gross_income - Dollars(200000)) * 9) \div 1000
                      ELSE 0
        IN  /\ year < 1994 =>
                  /\ ret = ss + MulRate(Min(gross_income, base), MEDICARE_RATE[yr])
                  /\ \A a \in Incomes :
                        (a >= base /\ gross_income >= base)
                            => compute_fica(a, year) = ret
            /\ year >= 1994 =>
                  ret - surtax = ss + MulRate(gross_income, MEDICARE_RATE[yr])

\* 1993, the last capped year (wage base 57600): 400000 pays what 100000
\* pays, 4406.40.
C19_Witness ==
    /\ pc = "fica_done" /\ year = 1993 /\ gross_income = Dollars(400000)
    /\ ret = 4406400
    /\ compute_fica(Dollars(100000), 1993) = ret
    /\ MEDICARE_RATE[1993] > 0

\* Sum over the brackets i..last of rate_i x max(0, min(taxable, t_{i+1}) - t_i),
\* with t_{k+1} = infinity for the last bracket k of the list.
RECURSIVE BracketSum(_, _, _, _)
BracketSum(brackets, taxable, i, last) ==
    IF i > last THEN 0
    ELSE LET upper == IF i < Len(brackets)
                      THEN Min(taxable, Dollars(brackets[i + 1][1]))
                      ELSE taxable
         IN  MulRate(Max(0, upper - Dollars(brackets[i][1])), brackets[i][2])
                + BracketSum(brackets, taxable, i + 1, last)

\* C21: compute_federal_tax equals the marginal-bracket integration: with
\* taxable = max(0, gross - standard_deduction(year) - personal_exemption(year))
\* the result is the sum over all brackets i of
\* rate_i x max(0, min(taxable, t_{i+1}) - t_i), and is 0 when gross <= 0
\* or taxable <= 0; the early loop exit drops no contributing bracket, and
\* a taxable income exactly equal to a threshold t_i has nothing from
\* bracket i (the sum stops at bracket i-1).
C21_BracketIntegration ==
    pc = "federal_done" =>
        LET yr == ClampYear(year)
            brackets == FEDERAL_BRACKETS[yr]
            taxable == Max(0, gross_income - Dollars(STANDARD_DEDUCTION[yr])
                                           - Dollars(PERSONAL_EXEMPTION[yr]))
        IN  IF gross_income <= 0 \/ taxable <= 0 THEN ret = 0
            ELSE /\ ret = BracketSum(brackets, taxable, 1, Len(brackets))
                 /\ \A i \in 2..Len(brackets) :
                        taxable = Dollars(brackets[i][1])
                            => ret = BracketSum(brackets, taxable, 1, i - 1)

\* 2024, gross 26200: the taxable income is 11600, the threshold of the
\* second bracket; the tax is 10% of 11600.
C21_Witness ==
    /\ pc = "federal_done" /\ year = 2024 /\ gross_income = ThresholdIncome(2024, 2)
    /\ gross_income = Dollars(26200)
    /\ ret = 1160000

\* C22: for every year in FEDERAL_BRACKETS the bracket list is non-empty,
\* its first threshold is 0 and its thresholds are strictly increasing;
\* standard deduction, personal exemption, wage base and rates are
\* non-negative for every year.
C22_TableShape ==
    /\ \A y \in DOMAIN FEDERAL_BRACKETS :
          LET brackets == FEDERAL_BRACKETS[y]
          IN  /\ Len(brackets) >= 1
              /\ brackets[1][1] = 0
              /\ \A i \in 1..(Len(brackets) - 1) : brackets[i][1] < brackets[i + 1][1]
              /\ \A i \in 1..Len(brackets) : brackets[i][2] >= 0
    /\ \A y \in DOMAIN STANDARD_DEDUCTION : STANDARD_DEDUCTION[y] >= 0
    /\ \A y \in DOMAIN PERSONAL_EXEMPTION : PERSONAL_EXEMPTION[y] >= 0
    /\ \A y \in DOMAIN SS_WAGE_BASE : SS_WAGE_BASE[y] >= 0
    /\ \A y \in DOMAIN SS_RATE : SS_RATE[y] >= 0
    /\ \A y \in DOMAIN MEDICARE_RATE : MEDICARE_RATE[y] >= 0
    /\ pc \in {"federal_done", "fica_done", "state_done"} => ret >= 0

\* The 24 brackets of 1961 in use, on an income in the top one; 2011 is a
\* payroll-tax-holiday year.
C22_Witness ==
    /\ pc = "federal_done" /\ year = 1961 /\ gross_income = Dollars(400000)
    /\ Len(FEDERAL_BRACKETS[1961]) = 24
    /\ Dollars(FEDERAL_BRACKETS[1961][24][1]) < gross_income
    /\ SS_RATE[2011] = 4200
    /\ ret > 0

\* C23: every integer year in [MIN_TAX_YEAR, MAX_TAX_YEAR] = [1961, 2025]
\* (the range derived from FEDERAL_BRACKETS alone) has an entry in
\* FEDERAL_BRACKETS, STANDARD_DEDUCTION, PERSONAL_EXEMPTION, SS_WAGE_BASE,
\* SS_RATE and MEDICARE_RATE, so compute_federal_tax, compute_fica,
\* compute_state_tax and compute_after_tax return a result (no failed
\* lookup) for every integer year and income.
C23_TableComplete ==
    /\ MIN_TAX_YEAR = 1961 /\ MAX_TAX_YEAR = 2025
    /\ \A y \in MIN_TAX_YEAR..MAX_TAX_YEAR :
          /\ y \in DOMAIN FEDERAL_BRACKETS
          /\ y \in DOMAIN STANDARD_DEDUCTION
          /\ y \in DOMAIN PERSONAL_EXEMPTION
          /\ y \in DOMAIN SS_WAGE_BASE
          /\ y \in DOMAIN SS_RATE
          /\ y \in DOMAIN MEDICARE_RATE
    /\ pc \in {"federal_done", "fica_done", "state_done"} => ret \in Int
    /\ pc = "after_tax_done" => ret.after_tax \in Int

\* The last table year, reached by the loop-filled part of SS_RATE and
\* MEDICARE_RATE: FICA of 50000 in 2025 is 3825.00.
C23_Witness ==
    /\ pc = "after_tax_done" /\ year = 2025 /\ gross_income = Dollars(50000)
    /\ ret.detail.fica = 3825000

\* C24: for every year in 1961..1994 and every gross_income > 0,
\* historical_tax_data.calculate_total_tax yields (before rounding) an
\* income tax equal to compute_federal_tax(gross_income, year) and a total
\* FICA equal to compute_fica(gross_income, year); outside 1961..1994
\* calculate_total_tax raises ValueError instead of clamping the year.
C24_ImplementationsAgree ==
    pc = "total_tax_done" =>
        IF year \in 1961..1994
        THEN gross_income > 0 =>
                /\ calculate_federal_income_tax(ret.taxable_income, year)
                        = compute_federal_tax(gross_income, year)
                /\ calculate_fica(gross_income, year)[3]
                        = compute_fica(gross_income, year)
                /\ ret.income_tax = Round2(compute_federal_tax(gross_income, year))
                /\ ret.total_fica = Round2(compute_fica(gross_income, year))
        ELSE ret = Raised("ValueError")

\* 1994, the first year of uncapped Medicare, on an income above the wage
\* base: FICA is 9557.20.
C24_Witness ==
    /\ pc = "total_tax_done" /\ year = 1994 /\ gross_income = Dollars(400000)
    /\ ret.total_fica = 9557200
    /\ ret.income_tax > 0

\* C28: at the default state rate of 0.05, for every year 1961..2025 and
\* every gross_income > 0, federal tax + FICA + state tax is strictly less
\* than gross_income: the floor at 0 never binds, the net income is
\* strictly positive, and the effective rate lies in [0, 1).
C28_DefaultRateLeavesPositiveNet ==
    (/\ pc = "after_tax_done"
     /\ state_rate = DEFAULT_STATE_RATE
     /\ year \in MIN_TAX_YEAR..MAX_TAX_YEAR
     /\ gross_income > 0)
        => LET total_tax == compute_federal_tax(gross_income, year)
                              + compute_fica(gross_income, year)
                              + compute_state_tax(gross_income, year, DEFAULT_STATE_RATE)
           IN  /\ total_tax < gross_income
               /\ ret.after_tax = gross_income - total_tax
               /\ ret.after_tax > 0
               /\ ret.detail.effective_rate >= 0
               /\ ret.detail.effective_rate < 10000     \* 1.0000

\* 1961, the year of the 91% top bracket: of 400000 the taxes take
\* 357458.00 (89.36%) and 42542.00 is left.
C28_Witness ==
    /\ pc = "after_tax_done" /\ year = 1961 /\ state_rate = DEFAULT_STATE_RATE
    /\ gross_income = Dollars(400000)
    /\ ret.detail.total = 357458000
    /\ ret.detail.effective_rate = 8936
    /\ ret.after_tax = 42542000

(***************************************************************************)
(* Properties of the percentile engine (checked under SpecPct).            *)
(***************************************************************************)
SeqMin(s) == CHOOSE x \in {s[k] : k \in DOMAIN s} : \A k \in DOMAIN s : x <= s[k]
SeqMax(s) == CHOOSE x \in {s[k] : k \in DOMAIN s} : \A k \in DOMAIN s : x >= s[k]

\* C3: weighted_percentile on values [10,20,30,40] with weights [1,1,1,1]
\* and p = 50 returns 25, the midpoint between the two middle observations.
C3_MedianOfFourIs25 ==
    (/\ pc = "percentile_done"
     /\ values = <<10, 20, 30, 40>>
     /\ weights = <<1, 1, 1, 1>>
     /\ percentile = 50)
        => (IsRat(ret) /\ ret = Rat(25, 1))

\* The unweighted linear-interpolation percentile of the sorted values
\* v[0..n-1]: h = (n-1)*p/100, v[floor(h)] + (h - floor(h)) * (v[ceil(h)] - v[floor(h)]).
ReferencePercentile(vals, p) ==
    LET n == Len(vals)
        v == [k \in 1..n |-> vals[(CHOOSE idx \in ArgSorts(vals) : TRUE)[k]]]
        h100 == (n - 1) * p
        lo == h100 \div 100
        hi == IF h100 % 100 = 0 THEN lo ELSE lo + 1
    IN  Rat(v[lo + 1] * 100 + (h100 % 100) * (v[hi + 1] - v[lo + 1]), 100)

\* C4: for every non-empty value sequence, every p in [0,100] and weights
\* that are all equal and positive, weighted_percentile equals the
\* unweighted linear-interpolation percentile of the same values.
C4_UniformWeightsMatchReference ==
    (/\ pc = "percentile_done"
     /\ Len(values) >= 1
     /\ Len(weights) = Len(values)
     /\ \A k \in DOMAIN weights : weights[k] > 0 /\ weights[k] = weights[1])
        => (IsRat(ret) /\ ret = ReferencePercentile(values, percentile))

\* C5: for every non-empty value sequence and every non-negative weight
\* sequence of the same length (zero weights permitted),
\* weighted_percentile(values, weights, 0) returns min(values) and
\* weighted_percentile(values, weights, 100) returns max(values).
C5_PercentileBoundaries ==
    (/\ pc = "percentile_done"
     /\ Len(values) >= 1
     /\ Len(weights) = Len(values)
     /\ \A k \in DOMAIN weights : weights[k] >= 0)
        => /\ percentile = 0 => (IsRat(ret) /\ ret = Rat(SeqMin(values), 1))
           /\ percentile = 100 => (IsRat(ret) /\ ret = Rat(SeqMax(values), 1))

\* C17: weighted_mean(values, weights) returns sum(value*weight) /
\* sum(weight) when the total weight is positive, and fails with an error
\* (never returns a number, NaN or infinity) when the total weight is 0.
C17_WeightedMean ==
    (pc = "mean_done" /\ Len(values) = Len(weights)) =>
        LET total == CumSum(weights, Len(weights))
            dot == SumProd(values, weights, Len(values))
        IN  IF total > 0
            THEN /\ IsRat(ret)
                 /\ ret.den > 0
                 /\ ret.num * total = dot * ret.den
            ELSE /\ ~IsRat(ret)
                 /\ "error" \in DOMAIN ret

\* Two observations, both of weight 0.
C17_Witness ==
    /\ pc = "mean_done" /\ values = <<10, 20>> /\ weights = <<0, 0>>
    /\ ret = Raised("ZeroDivisionError")

\* C18: weighted_percentile fails with an error, and returns no value,
\* whenever the value and weight sequences have different lengths (weights
\* shorter than values, or weights longer than values).
C18_LengthMismatchRaises ==
    (pc = "percentile_done" /\ Len(values) # Len(weights)) =>
        (~IsRat(ret) /\ "error" \in DOMAIN ret)

\* C26: in weighted_percentile with non-negative weights, whenever the
\* interpolation step is reached (cum_wt[0] < target < cum_wt[-1]) the
\* located index i satisfies i >= 1 and cum_wt[i-1] < target <= cum_wt[i];
\* hence w_above - w_below is strictly positive, no division by zero can
\* occur, and neither the 'i == 0' return nor the 'w_above == w_below'
\* return is ever taken.
C26_InterpolationIndexSafe ==
    (/\ pc = "percentile_done"
     /\ Len(values) >= 1
     /\ Len(weights) = Len(values)
     /\ \A k \in DOMAIN weights : weights[k] >= 0)
        => /\ \A idx \in ArgSorts(values) :
                LET t == weighted_percentile_steps(values, weights, percentile, idx)
                    n == Len(values)
                    reached == /\ 100 * t.cum_wt[1] < t.target100
                               /\ t.target100 < 100 * t.cum_wt[n]
                IN  /\ t.exit \notin {"i == 0", "w_above == w_below", "raise"}
                    /\ reached <=> t.exit = "interpolated"
                    /\ reached =>
                          /\ t.i >= 2 /\ t.i <= n          \* 0-based: 1 <= i <= n-1
                          /\ 100 * t.cum_wt[t.i - 1] < t.target100
                          /\ t.target100 <= 100 * t.cum_wt[t.i]
                          /\ t.w_above - t.w_below > 0
           /\ \E idx \in ArgSorts(values) :
                ret = weighted_percentile_steps(values, weights, percentile, idx).ret

\* A zero-weight observation between two weighted ones: cum_wt = [1, 1, 2],
\* target 1.5, i = 2 (0-based), result 20 + 0.5 x (30 - 20).
C26_Witness ==
    /\ pc = "percentile_done"
    /\ values = <<10, 20, 30>> /\ weights = <<1, 0, 1>> /\ percentile = 75
    /\ ret = Rat(25, 1)

\* C27: for every non-empty value sequence with non-negative weights,
\* weighted_percentile lies in [min(values), max(values)] for every p in
\* [0, 100] and is non-decreasing in p; consequently every cell built from
\* such observations by compute_percentiles has p1 <= p5 <= ... <= p99.
\* (np.argsort is a function of its input: one order idx serves every p.)
C27_PercentileRangeAndOrder ==
    (/\ pc = "percentile_done"
     /\ Len(values) >= 1
     /\ Len(weights) = Len(values)
     /\ \A k \in DOMAIN weights : weights[k] >= 0)
        => LET lo == CHOOSE v \in {values[k] : k \in DOMAIN values} :
                        \A k \in DOMAIN values : v <= values[k]
               hi == CHOOSE v \in {values[k] : k \in DOMAIN values} :
                        \A k \in DOMAIN values : v >= values[k]
           IN  /\ IsRat(ret)
               /\ RatLeq(Rat(lo, 1), ret) /\ RatLeq(ret, Rat(hi, 1))
               /\ \A idx \in ArgSorts(values) :
                    /\ \E at \in {[p \in PercentileDomain |->
                                    weighted_percentile(values, weights, p, idx)]} :
                          \A p, q \in PercentileDomain :
                              p <= q => RatLeq(at[p], at[q])
                    /\ (\A k \in DOMAIN weights : weights[k] > 0) =>
                          \E cell \in {CellStats(values, weights, idx)} :
                              \A j \in 1..(Len(PERCENTILES) - 1) :
                                  cell[PField(PERCENTILES[j])]
                                      <= cell[PField(PERCENTILES[j + 1])]

\* Unsorted input with unequal weights: sorted values 10, 20, 30 carry
\* cum_wt = [2, 3, 4]; the 75th percentile has target 3, i = 1 and
\* fraction 1, so it is 20 exactly.
C27_Witness ==
    /\ pc = "percentile_done"
    /\ values = <<30, 10, 20>> /\ weights = <<1, 2, 1>> /\ percentile = 75
    /\ ret = Rat(20, 1)

(***************************************************************************)
(* Properties of the builder (SpecBuild) and the annotator (SpecAnnot).    *)
(***************************************************************************)
\* Rows of df in the cell (survey_year, age) with weight > 0.
PositiveRows(survey_year, age) ==
    {k \in DOMAIN df :
        df[k].YEAR = survey_year /\ df[k].AGE = age /\ df[k].ASECWT > 0}

\* C6: every cell emitted by compute_percentiles has n_samples >= 25, where
\* n_samples counts only the observations of that (year, age) whose weight
\* is > 0; a cell with fewer is omitted without raising and without
\* affecting other cells.
C6_Sufficiency ==
    pc = "build_done" =>
        \A k \in DOMAIN df :
            LET survey_year == df[k].YEAR
                y == survey_year - 1
            IN  /\ y \in DOMAIN results
                /\ \A age \in age_min..age_max :
                    LET n == Cardinality(PositiveRows(survey_year, age))
                    IN  IF n >= 25
                        THEN /\ age \in DOMAIN results[y]
                             /\ results[y][age]["n_samples"] = n
                        ELSE age \notin DOMAIN results[y]

\* One cell emitted at exactly 25 positive-weight rows, beside a cell of 26
\* rows of which only 24 have positive weight, which is omitted.
C6_Witness ==
    /\ pc = "build_done"
    /\ 16 \in DOMAIN results[2024] /\ results[2024][16]["n_samples"] = 25
    /\ 17 \notin DOMAIN results[2024]
    /\ Cardinality({k \in DOMAIN df : df[k].YEAR = 2025 /\ df[k].AGE = 17}) = 26
    /\ Cardinality(PositiveRows(2025, 17)) = 24

\* The rows of df in the cell (survey_year, age) with weight > 0, in order.
PositiveRowSeq(survey_year, age) ==
    SelectSeq(df, LAMBDA row :
        row.YEAR = survey_year /\ row.AGE = age /\ row.ASECWT > 0)

\* C25: for every survey year present in the input and every age in
\* [age_min, age_max], if at least 25 observations of that (year, age) have
\* weight > 0 then compute_percentiles emits the cell, with n_samples the
\* number of positive-weight observations, est_workforce the integer part
\* of the sum of their weights, and mean and percentiles computed from the
\* positive-weight observations only (observations with weight <= 0
\* contribute to nothing); the input table is not modified.
C25_BuilderComplete ==
    /\ [](pc = "build_done" =>
            \A survey_year \in {df[k].YEAR : k \in DOMAIN df} :
              \A age \in age_min..age_max :
                LET y == survey_year - 1
                    rows == PositiveRowSeq(survey_year, age)
                    vals == [j \in 1..Len(rows) |-> rows[j].INCTOT]
                    wts == [j \in 1..Len(rows) |-> rows[j].ASECWT]
                IN  Len(rows) >= 25 =>
                        /\ y \in DOMAIN results
                        /\ age \in DOMAIN results[y]
                        /\ results[y][age]["n_samples"] = Len(rows)
                        /\ results[y][age]["est_workforce"]
                                = CumSum(wts, Len(wts)) \div 100
                        /\ results[y][age]["mean"]
                                = RoundRat2(Rat(SumProd(vals, wts, Len(vals)),
                                                CumSum(wts, Len(wts))))
                        /\ \E idx \in ArgSorts(vals) :
                                \A i \in 1..Len(PERCENTILES) :
                                    results[y][age][PField(PERCENTILES[i])]
                                        = RoundRat2(weighted_percentile(
                                                vals, wts, PERCENTILES[i], idx)))
    /\ [][df' = df]_vars

\* A cell of 28 rows, 26 of them of positive weight, emitted from the 26.
C25_Witness ==
    /\ pc = "build_done"
    /\ Cardinality({k \in DOMAIN df : df[k].YEAR = 2025 /\ df[k].AGE = 16}) = 28
    /\ Len(PositiveRowSeq(2025, 16)) = 26
    /\ results[2024][16]["n_samples"] = 26

\* C2: after add_after_tax_to_data(data, state_rate), in every cell and for
\* any two gross percentile fields with gross value pX <= pY, the stored
\* after-tax fields satisfy at_pX <= at_pY.
C2_PercentileOrderPreserved ==
    pc = "annot_done" =>
        \A y \in DOMAIN data : \A age \in DOMAIN data[y] :
            LET record == data[y][age]
                pfields == {INCOME_FIELDS[k] : k \in 2..Len(INCOME_FIELDS)}
                known == {f \in pfields : f \in DOMAIN record /\ record[f] # None}
            IN  \A fx, fy \in known :
                    record[fx] <= record[fy]
                        => record["at_" \o fx] <= record["at_" \o fy]

\* The table without the fields the annotator adds.
Unannotated(d) ==
    LET added == {"at_" \o INCOME_FIELDS[k] : k \in 1..Len(INCOME_FIELDS)}
                    \cup {"at_effective_rate_p50"}
    IN  [y \in DOMAIN d |->
            [age \in DOMAIN d[y] |->
                [f \in DOMAIN d[y][age] \ added |-> d[y][age][f]]]]

\* C14: running add_after_tax_to_data twice with the same state_rate on a
\* table whose gross fields are unchanged leaves every at_* field (and
\* at_effective_rate_p50) identical to its value after the first run.
C14_AnnotatorIdempotent ==
    [][(pc = "annot_done" /\ pc' = "annot_done" /\ state_rate' = state_rate)
            => data' = data]_vars

\* Two runs at 13% on a 1961 table.
C14_Witness ==
    /\ pc = "annot_done" /\ Len(runs) = 2 /\ runs[1] = 13000 /\ runs[2] = 13000
    /\ 1961 \in DOMAIN data
    /\ data[1961][40]["at_p50"] < data[1961][40]["p50"]
    /\ data[1961][40]["at_effective_rate_p50"] > 0

\* C15: running add_after_tax_to_data with rate r1 and then with a
\* different rate r2 yields, for every cell, exactly the at_* fields that
\* a single run with r2 on the un-annotated table yields; no derived field
\* of the r1 run survives or is compounded.
C15_AnnotatorOverwrites ==
    [][(pc = "annot_done" /\ pc' = "annot_done" /\ state_rate' # state_rate)
            => /\ Unannotated(data') = Unannotated(data)
               /\ data' = add_after_tax_to_data(Unannotated(data), state_rate')]_vars

\* A run at 13% followed by a run at 0 (--no-state) on a 1988 table.
C15_Witness ==
    /\ pc = "annot_done" /\ runs = <<13000, 0>>
    /\ 1988 \in DOMAIN data
    /\ data[1988][40]["at_p50"]
          = Round2(compute_after_tax(data[1988][40]["p50"], 1988, 0).after_tax)
    /\ data[1988][40]["at_p50"]
          > Round2(compute_after_tax(data[1988][40]["p50"], 1988, 13000).after_tax)

C20_ProjectReturnsCopy ==
    [][pc' = "project_done" =>
          /\ data' = data
          /\ metadata' = metadata
          /\ ret'.data[2024] = data[2024]]_vars

(***************************************************************************)
(* Properties of the pipeline (checked under SpecPipe).                    *)
(***************************************************************************)
GrossFields == {INCOME_FIELDS[k] : k \in 1..Len(INCOME_FIELDS)}

AtFields == {"at_" \o f : f \in GrossFields} \cup {"at_effective_rate_p50"}

HasAtField(cell) == DOMAIN cell \cap AtFields # {}

\* The last run logged is of the given script.
LastRunIs(log, op) == Len(log) >= 1 /\ log[Len(log)].op = op

\* project has run on the table at least once.
Projected(log) == \E k \in DOMAIN log : log[k].op = "project"

\* add_after_tax_to_data has run after the most recent project.
AnnotatedSinceProject(log) ==
    \E k \in DOMAIN log :
        /\ log[k].op = "add_after_tax"
        /\ \A j \in DOMAIN log : log[j].op = "project" => j < k

\* C29: in every table reachable from a compute_percentiles output by
\* project and add_after_tax_to_data, applied any number of times in any
\* order, each cell has n_samples >= 25 or is a projected cell of year 2025
\* with n_samples = 0 and estimated = true; and add_after_tax_to_data never
\* changes n_samples, est_workforce or a gross field of any cell.
C29_PipelineTableInvariant ==
    /\ [](pc # "pipe_build" =>
            \A y \in DOMAIN data : \A age \in DOMAIN data[y] :
                LET cell == data[y][age]
                IN  \/ cell.n_samples >= 25
                    \/ /\ y = 2025
                       /\ cell.n_samples = 0
                       /\ "estimated" \in DOMAIN cell
                       /\ cell.estimated = TRUE)
    /\ [][(pc # "pipe_build" /\ LastRunIs(runs', "add_after_tax")
                              /\ Len(runs') = Len(runs) + 1) =>
            /\ DOMAIN data' = DOMAIN data
            /\ \A y \in DOMAIN data :
                /\ DOMAIN data'[y] = DOMAIN data[y]
                /\ \A age \in DOMAIN data[y] :
                    \A f \in DOMAIN data[y][age] \ AtFields :
                        /\ f \in DOMAIN data'[y][age]
                        /\ data'[y][age][f] = data[y][age][f]]_vars

\* After project and then the annotator at the default rate, the table has
\* a measured 2024 cell of 25 samples and its projected 2025 cell, both
\* annotated.
C29_Witness ==
    /\ pc = "pipe_annotated"
    /\ Len(runs) = 2 /\ runs[1].op = "project"
    /\ data[2024][16].n_samples = 25
    /\ data[2025][16].n_samples = 0 /\ data[2025][16].estimated = TRUE
    /\ "at_p50" \in DOMAIN data[2025][16]
    /\ data[2024][16]["p50"] < data[2025][16]["p50"]

\* C30: project builds each 2025 cell only from n_samples, est_workforce,
\* the estimated flag and the gross fields of the 2024 cell scaled by the
\* growth factor of its age, replacing any 2025 entry there was, and
\* leaves every other year as it is; so, once project has run, the 2025
\* cells carry at_* fields if and only if add_after_tax_to_data has run
\* after the most recent project, and a project run after an annotation
\* resets the 2025 cells to no at_* field while other years keep theirs.
C30_ProjectionResetsAnnotation ==
    /\ [][(LastRunIs(runs', "project") /\ Len(runs') = Len(runs) + 1) =>
            /\ DOMAIN data' = DOMAIN data \cup {2025}
            /\ \A y \in DOMAIN data \ {2025} : data'[y] = data[y]
            /\ DOMAIN data'[2025] = DOMAIN data[2024]
            /\ \A age \in DOMAIN data[2024] :
                LET base == data[2024][age]
                    cell == data'[2025][age]
                    gross == {f \in GrossFields : f \in DOMAIN base /\ base[f] # None}
                IN  /\ DOMAIN cell = {"n_samples", "est_workforce", "estimated"} \cup gross
                    /\ cell.n_samples = 0
                    /\ cell.est_workforce = base.est_workforce
                    /\ cell.estimated = TRUE
                    /\ \A f \in gross :
                          cell[f] = ProjectAmount(base[f], get_growth_factor(age))
                    /\ ~HasAtField(cell)]_vars
    /\ [](Projected(runs) =>
            \A age \in DOMAIN data[2025] :
                HasAtField(data[2025][age]) <=> AnnotatedSinceProject(runs))

\* Annotated, then projected: the 2024 cell keeps its at_* fields and the
\* new 2025 cell has none.
C30_Witness ==
    /\ pc = "pipe_projected"
    /\ Len(runs) = 2 /\ runs[1].op = "add_after_tax"
    /\ "at_p50" \in DOMAIN data[2024][16]
    /\ 16 \in DOMAIN data[2025]
    /\ ~HasAtField(data[2025][16])

====
